---- MODULE Spec2Model ----
(***************************************************************************)
(* Financial-integrity core of the stay-booking backend: bookings and the  *)
(* calendar, payments, refunds, host payouts, disputes, the settlement     *)
(* ledger, financial snapshots, the audit trail and the idempotency store. *)
(* Tables are modelled as sequences indexed by the row id (rows are never  *)
(* deleted), the calendar, the ledger and the audit log as bags of rows.   *)
(* Every request handler runs in one database transaction: it either       *)
(* commits all of its writes or, when it raises, none of them.             *)
(***************************************************************************)
EXTENDS Integers, Sequences, FiniteSets, Bags, TLC

\* ------------------------------------------------------------------ bounds

MaxDay == 3
MaxBookings == 1
MaxPayments == 2
MaxRefunds == 2
MaxDisputes == 1
MaxExtensions == 2
MaxAdminResolutions == 1
\* runs of the daily payout task that create a payout
MaxPayoutRuns == 2

NONE == 0

Days == 1..MaxDay

\* ------------------------------------------------------- state machine tables

BOOKING_TRANSITIONS ==
  [pending |-> {"confirmed", "cancelled"},
   confirmed |-> {"checked_in", "cancelled"},
   checked_in |-> {"completed"},
   completed |-> {},
   cancelled |-> {}]

PAYMENT_TRANSITIONS ==
  [pending |-> {"processing", "completed", "failed"},
   processing |-> {"completed", "failed"},
   completed |-> {"refunded"},
   failed |-> {},
   refunded |-> {}]

\* the payout table without the clawback of a released payout
PAYOUT_TRANSITIONS_no_clawback ==
  [pending |-> {"eligible", "reversed"},
   eligible |-> {"released", "reversed"},
   released |-> {},
   reversed |-> {}]

PAYOUT_TRANSITIONS ==
  [pending |-> {"eligible", "reversed"},
   eligible |-> {"released", "reversed"},
   released |-> {"reversed"},
   reversed |-> {}]

DISPUTE_TRANSITIONS ==
  [opened |-> {"under_review", "resolved"},
   under_review |-> {"resolved", "opened"},
   resolved |-> {"reversed"},
   reversed |-> {}]

VALID_RESOLUTION_TYPES ==
  {"refund", "payout_reversal", "no_action", "chargeback_won", "chargeback_lost"}

\* dict.get(current, set()): a status outside the table allows nothing
Allowed(table, current) ==
  IF current \in DOMAIN table THEN table[current] ELSE {}

\* a table lookup that also lets a status "move" to itself
assert_booking_transition_self(current, target) ==
  target \in Allowed(BOOKING_TRANSITIONS, current) \cup {current}

\* TRUE iff the assert_* function returns without raising
assert_booking_transition(current, target) ==
  target \in Allowed(BOOKING_TRANSITIONS, current)

assert_payment_transition(current, target) ==
  target \in Allowed(PAYMENT_TRANSITIONS, current)

assert_payout_transition(current, target) ==
  target \in Allowed(PAYOUT_TRANSITIONS, current)

assert_dispute_transition(current, target) ==
  target \in Allowed(DISPUTE_TRANSITIONS, current)

\* the guard without its payment checks
can_release_payout_unpaid(booking_status, payment_status) ==
  IF booking_status = "cancelled" THEN FALSE
  ELSE IF booking_status \notin {"completed", "checked_in"} THEN FALSE
  ELSE TRUE

can_release_payout(booking_status, payment_status) ==
  IF booking_status = "cancelled" THEN FALSE
  ELSE IF payment_status \in {"refunded", "partially_refunded"} THEN FALSE
  ELSE IF payment_status # "paid" THEN FALSE
  ELSE IF booking_status \notin {"completed", "checked_in"} THEN FALSE
  ELSE TRUE

\* the predicate without its check of an already resolved dispute
can_resolve_dispute_again(status) ==
  IF status = "reversed" THEN FALSE
  ELSE TRUE

can_resolve_dispute(status) ==
  IF status = "reversed" THEN FALSE
  ELSE IF status = "resolved" THEN FALSE
  ELSE TRUE

can_reverse_dispute(status) == status = "resolved"

\* ------------------------------------------------------------ pricing

\* Decimal.quantize(Decimal("1")) under the default context: ROUND_HALF_EVEN
RoundHalfEven(n, d) ==
  LET q == n \div d
      r == n % d
  IN IF 2 * r < d THEN q
     ELSE IF 2 * r > d THEN q + 1
     ELSE IF q % 2 = 0 THEN q ELSE q + 1

\* a rate table that charges the marketplace rate on direct-link bookings
COMMISSION_RATES_direct_charged ==
  [AIRBNB |-> 0, BOOKING_COM |-> 0, VOLO_MARKETPLACE |-> 9,
   DIRECT_LINK |-> 9, DIRECT_WHATSAPP |-> 0]

COMMISSION_RATES ==
  [AIRBNB |-> 0, BOOKING_COM |-> 0, VOLO_MARKETPLACE |-> 9,
   DIRECT_LINK |-> 0, DIRECT_WHATSAPP |-> 0]

get_commission_rate(source) ==
  IF source \in DOMAIN COMMISSION_RATES THEN COMMISSION_RATES[source] ELSE 9

calculate_commission(source, total_amount) ==
  RoundHalfEven(total_amount * get_commission_rate(source), 100)

\* amounts whose host payout is the whole total, commission not deducted
calculate_booking_amounts_gross(source, nightly_rate, nights, cleaning_fee) ==
  LET subtotal == nightly_rate * nights
      total_price == subtotal + cleaning_fee
  IN [subtotal |-> subtotal,
      cleaning_fee |-> cleaning_fee,
      total_price |-> total_price,
      commission_rate |-> get_commission_rate(source),
      commission_amount |-> calculate_commission(source, total_price),
      host_payout_amount |-> total_price]

calculate_booking_amounts(source, nightly_rate, nights, cleaning_fee) ==
  LET subtotal == nightly_rate * nights
      total_price == subtotal + cleaning_fee
      commission_amount == calculate_commission(source, total_price)
  IN [subtotal |-> subtotal,
      cleaning_fee |-> cleaning_fee,
      total_price |-> total_price,
      commission_rate |-> get_commission_rate(source),
      commission_amount |-> commission_amount,
      host_payout_amount |-> total_price - commission_amount]

calculate_extension_commission(original_source, additional_nights, nightly_rate) ==
  LET additional_amount == nightly_rate * additional_nights
  IN [additional_amount |-> additional_amount,
      commission_amount |-> calculate_commission(original_source, additional_amount)]

\* ------------------------------------------------------- cancellation policy

\* (min_days, percent) rules, evaluated in order, first match wins
\* a table whose flexible policy pays more on the day than the day before
POLICY_RULES_late_bonus ==
  [flexible |-> << <<1, 50>>, <<0, 100>> >>,
   moderate |-> << <<5, 100>>, <<1, 50>>, <<0, 0>> >>,
   strict |-> << <<7, 50>>, <<0, 0>> >>]

POLICY_RULES ==
  [flexible |-> << <<1, 100>>, <<0, 50>> >>,
   moderate |-> << <<5, 100>>, <<1, 50>>, <<0, 0>> >>,
   strict |-> << <<7, 50>>, <<0, 0>> >>]

calculate_refund_percentage(policy, check_in_date, cancellation_date) ==
  LET pol == IF policy \in DOMAIN POLICY_RULES THEN policy ELSE "moderate"
      rules == POLICY_RULES[pol]
      days_before == check_in_date - cancellation_date
      hits == {i \in 1..Len(rules) : days_before >= rules[i][1]}
  IN IF hits = {} THEN 0
     ELSE rules[CHOOSE i \in hits : \A j \in hits : i <= j][2]

calculate_refund_amount(policy, check_in_date, cancellation_date, total_price) ==
  RoundHalfEven(
    total_price * calculate_refund_percentage(policy, check_in_date, cancellation_date),
    100)

\* ------------------------------------------------------------ the data

\* The listings the bookings are made on (rows of the listings table).
Listings ==
  << [instant_booking |-> TRUE, base_price_per_night |-> 100, cleaning_fee |-> 0,
      cancellation_policy |-> "flexible", min_nights |-> 1, max_nights |-> 30],
     [instant_booking |-> FALSE, base_price_per_night |-> 100, cleaning_fee |-> 50,
      cancellation_policy |-> "strict", min_nights |-> 1, max_nights |-> 30] >>

ListingIds == DOMAIN Listings

\* BookingCreate.source accepts exactly these
BookingSources == {"VOLO_MARKETPLACE", "DIRECT_LINK", "DIRECT_WHATSAPP"}

VARIABLES
  bookings,    \* bookings table, indexed by booking id
  blocks,      \* calendar_blocks table (bag of rows)
  extensions,  \* booking_extensions table
  payments,    \* payments table
  refunds,     \* refunds table
  payouts,     \* host_payouts table
  disputes,    \* disputes table
  snapshots,   \* booking_financial_snapshots table
  ledger,      \* settlement_ledger table (bag of rows)
  audit,       \* audit_logs table (bag of rows)
  idem,        \* keys held by the in-process IdempotencyStore
  calls        \* calls in progress outside an atomic handler (a sequence):
               \* concurrent create_booking requests, a direct service call

db == <<bookings, blocks, extensions, payments, refunds, payouts, disputes,
        snapshots, ledger, audit>>
vars == <<bookings, blocks, extensions, payments, refunds, payouts, disputes,
          snapshots, ledger, audit, idem, calls>>

BagAdd(B, e) == B (+) SetToBag({e})
BagRemoveAll(B, S) == [e \in (DOMAIN B) \ S |-> B[e]]
BagCount(B, S) == BagCardinality([e \in (DOMAIN B) \cap S |-> B[e]])

RECURSIVE SumSeq(_, _)
\* sum of f[i].amount over the indexes in S
SumSeq(f, S) ==
  IF S = {} THEN 0
  ELSE LET i == CHOOSE x \in S : TRUE IN f[i].amount + SumSeq(f, S \ {i})

RECURSIVE SumBag(_, _)
\* sum of e.amount * copies over the rows in S of bag B
SumBag(B, S) ==
  IF S = {} THEN 0
  ELSE LET e == CHOOSE x \in S : TRUE IN e.amount * B[e] + SumBag(B, S \ {e})

\* A handler's outcome is "ok" or the exception it raises.  A ValidationError
\* raised by an assert_*_transition is written "InvalidTransition";
\* IdempotencyError is a subclass of ValidationError.
IsValidationError(r) == r \in {"ValidationError", "InvalidTransition", "IdempotencyError"}

\* generate_idempotency_key: a digest of (operation, entity id, params)
generate_idempotency_key(operation, entity_id, params) ==
  <<operation, entity_id, params>>

\* a store that never finds a key (an expired or lost entry)
check_idempotency_miss(key) == FALSE

check_idempotency(key) == key \in idem

Init ==
  /\ bookings = << >>
  /\ blocks = EmptyBag
  /\ extensions = << >>
  /\ payments = << >>
  /\ refunds = << >>
  /\ payouts = << >>
  /\ disputes = << >>
  /\ snapshots = << >>
  /\ ledger = EmptyBag
  /\ audit = EmptyBag
  /\ idem = {}
  /\ calls = << >>

\* ------------------------------------------------------------ calendar

\* the WHERE clause of check_availability's query
BlockMatches(blk, listing_id, check_in, check_out) ==
  /\ blk.listing_id = listing_id
  /\ \/ (blk.start_date <= check_in /\ blk.end_date > check_in)
     \/ (blk.start_date < check_out /\ blk.end_date >= check_out)
     \/ (blk.start_date >= check_in /\ blk.end_date <= check_out)

MatchingBlocks(B, listing_id, check_in, check_out) ==
  {blk \in DOMAIN B : BlockMatches(blk, listing_id, check_in, check_out)}

\* check_availability: "yes" / "no", or "MultipleResultsFound" when
\* scalar_one_or_none() meets more than one matching row
check_availability(B, listing_id, check_in, check_out) ==
  LET n == BagCount(B, MatchingBlocks(B, listing_id, check_in, check_out))
  IN IF n = 0 THEN "yes" ELSE IF n = 1 THEN "no" ELSE "MultipleResultsFound"

CalendarBlock(listing_id, start_date, end_date) ==
  [listing_id |-> listing_id, start_date |-> start_date, end_date |-> end_date,
   block_type |-> "volo_booking"]

\* ------------------------------------------------------------ bookings

NewBooking(l, source, check_in, check_out) ==
  LET listing == Listings[l]
      pricing == calculate_booking_amounts(
                   source, listing.base_price_per_night, check_out - check_in,
                   listing.cleaning_fee)
  IN [listing_id |-> l,
      source |-> source,
      commission_rate |-> pricing.commission_rate,
      check_in |-> check_in,
      check_out |-> check_out,
      nightly_rate |-> listing.base_price_per_night,
      subtotal |-> pricing.subtotal,
      cleaning_fee |-> pricing.cleaning_fee,
      total_price |-> pricing.total_price,
      commission_amount |-> pricing.commission_amount,
      host_payout_amount |-> pricing.host_payout_amount,
      status |-> IF listing.instant_booking THEN "confirmed" ELSE "pending",
      payment_status |-> "pending",
      refund_amount |-> 0,
      cancelled_by |-> "none"]

\* the checks of create_booking, in the handler's order
create_booking_result(B, l, check_in, check_out) ==
  LET nights == check_out - check_in
      avail == check_availability(B, l, check_in, check_out)
  IN IF l \notin ListingIds THEN "ListingNotAvailable"
     ELSE IF nights < Listings[l].min_nights THEN "ValidationError"
     ELSE IF nights > Listings[l].max_nights THEN "ValidationError"
     ELSE IF avail = "MultipleResultsFound" THEN "MultipleResultsFound"
     ELSE IF avail = "no" THEN "DatesNotAvailable"
     ELSE "ok"

\* create_booking while the bookings table holds fewer than limit rows
create_booking_within(limit, l, source, check_in, check_out) ==
  LET r == create_booking_result(blocks, l, check_in, check_out)
  IN /\ Len(bookings) < limit
     /\ IF r = "ok"
        THEN /\ bookings' = Append(bookings, NewBooking(l, source, check_in, check_out))
             /\ blocks' = BagAdd(blocks, CalendarBlock(l, check_in, check_out))
        ELSE UNCHANGED <<bookings, blocks>>
     /\ UNCHANGED <<extensions, payments, refunds, payouts, disputes, snapshots,
                    ledger, audit, idem>>
     /\ UNCHANGED calls

create_booking(l, source, check_in, check_out) ==
  create_booking_within(MaxBookings, l, source, check_in, check_out)

confirm_booking_result(b) ==
  IF b \notin DOMAIN bookings THEN "NotFoundError"
  ELSE IF ~assert_booking_transition(bookings[b].status, "confirmed")
       THEN "InvalidTransition"
  ELSE "ok"

confirm_booking(b) ==
  LET r == confirm_booking_result(b)
  IN /\ IF r = "ok"
        THEN bookings' = [bookings EXCEPT ![b].status = "confirmed"]
        ELSE UNCHANGED bookings
     /\ UNCHANGED <<blocks, extensions, payments, refunds, payouts, disputes,
                    snapshots, ledger, audit, idem>>
     /\ UNCHANGED calls

\* who: the caller's relation to the booking; today: the cancellation date
cancel_booking_result(b) ==
  IF b \notin DOMAIN bookings THEN "NotFoundError"
  ELSE IF ~assert_booking_transition(bookings[b].status, "cancelled")
       THEN "InvalidTransition"
  ELSE "ok"

\* what cancel_booking writes once its checks have passed
cancel_booking_writes(b, who, today) ==
  LET bk == bookings[b]
      refund_amount ==
        IF bk.refund_amount = 0
        THEN IF who = "host" THEN bk.total_price
             ELSE calculate_refund_amount(
                    Listings[bk.listing_id].cancellation_policy,
                    bk.check_in, today, bk.total_price)
        ELSE bk.refund_amount
  IN /\ bookings' = [bookings EXCEPT ![b].status = "cancelled",
                                     ![b].refund_amount = refund_amount,
                                     ![b].cancelled_by = who]
     /\ blocks' = BagRemoveAll(blocks,
                    {CalendarBlock(bk.listing_id, bk.check_in, bk.check_out)})

cancel_booking(b, who, today) ==
  LET r == cancel_booking_result(b)
  IN /\ IF r = "ok"
        THEN cancel_booking_writes(b, who, today)
        ELSE UNCHANGED <<bookings, blocks>>
     /\ UNCHANGED <<extensions, payments, refunds, payouts, disputes, snapshots,
                    ledger, audit, idem>>
     /\ UNCHANGED calls

check_in_booking_result(b) ==
  IF b \notin DOMAIN bookings THEN "NotFoundError"
  ELSE IF ~assert_booking_transition(bookings[b].status, "checked_in")
       THEN "InvalidTransition"
  ELSE IF bookings[b].payment_status # "paid" THEN "ValidationError"
  ELSE "ok"

\* what check_in_booking writes once its checks have passed
check_in_booking_writes(b) ==
  bookings' = [bookings EXCEPT ![b].status = "checked_in"]

check_in_booking(b) ==
  LET r == check_in_booking_result(b)
  IN /\ IF r = "ok"
        THEN check_in_booking_writes(b)
        ELSE UNCHANGED bookings
     /\ UNCHANGED <<blocks, extensions, payments, refunds, payouts, disputes,
                    snapshots, ledger, audit, idem>>
     /\ UNCHANGED calls

\* ------------------------------------------------------------ snapshots

PayoutsOfBooking(b) == {i \in DOMAIN payouts : payouts[i].booking_id = b}
SnapshotsOfBooking(S, b) == {i \in DOMAIN S : S[i].booking_id = b}

\* create_booking_snapshot raises ValueError when a snapshot exists
create_booking_snapshot_ok(S, b) == SnapshotsOfBooking(S, b) = {}

\* the row create_booking_snapshot adds for booking b with fields bk
create_booking_snapshot(S, b, bk) ==
  Append(S, [booking_id |-> b,
             guest_total |-> bk.total_price,
             guest_subtotal |-> bk.subtotal,
             guest_cleaning_fee |-> bk.cleaning_fee,
             commission_rate |-> bk.commission_rate,
             commission_amount |-> bk.commission_amount,
             host_payout_amount |-> bk.host_payout_amount,
             check_in |-> bk.check_in,
             check_out |-> bk.check_out,
             nightly_rate |-> bk.nightly_rate,
             listing_id |-> bk.listing_id,
             source |-> bk.source])

HostPayout(booking_id, amount, payout_date) ==
  [booking_id |-> booking_id, amount |-> amount, status |-> "pending",
   payout_date |-> payout_date, booking_ids |-> {}]

complete_booking_result(b) ==
  IF b \notin DOMAIN bookings THEN "NotFoundError"
  ELSE IF ~assert_booking_transition(bookings[b].status, "completed")
       THEN "InvalidTransition"
  ELSE IF ~create_booking_snapshot_ok(snapshots, b) THEN "ValueError"
  ELSE "ok"

complete_booking(b) ==
  LET r == complete_booking_result(b)
  IN /\ IF r = "ok"
        THEN LET bk == [bookings[b] EXCEPT !.status = "completed"]
             IN /\ bookings' = [bookings EXCEPT ![b] = bk]
                /\ payouts' =
                     IF bk.payment_status = "paid" /\ PayoutsOfBooking(b) = {}
                     THEN Append(payouts,
                                 HostPayout(b, bk.host_payout_amount, bk.check_out))
                     ELSE payouts
                /\ snapshots' = create_booking_snapshot(snapshots, b, bk)
        ELSE UNCHANGED <<bookings, payouts, snapshots>>
     /\ UNCHANGED <<blocks, extensions, payments, refunds, disputes, ledger,
                    audit, idem>>
     /\ UNCHANGED calls

\* ------------------------------------------------------------ extensions

request_extension_result(b, new_check_out) ==
  LET bk == bookings[b]
      avail == check_availability(blocks, bk.listing_id, bk.check_out, new_check_out)
  IN IF b \notin DOMAIN bookings THEN "NotFoundError"
     \* InvalidBookingStatus is not imported by the module: NameError
     ELSE IF bk.status \notin {"confirmed", "completed"} THEN "NameError"
     ELSE IF new_check_out <= bk.check_out THEN "ValidationError"
     ELSE IF avail = "MultipleResultsFound" THEN "MultipleResultsFound"
     ELSE IF avail = "no" THEN "DatesNotAvailable"
     ELSE "ok"

request_extension(b, new_check_out) ==
  LET bk == bookings[b]
      avail == check_availability(blocks, bk.listing_id, bk.check_out, new_check_out)
      r == request_extension_result(b, new_check_out)
  IN /\ Len(extensions) < MaxExtensions
     /\ IF r = "ok"
        THEN LET nights == new_check_out - bk.check_out
                 pricing == calculate_extension_commission(
                              bk.source, nights, bk.nightly_rate)
                 instant == Listings[bk.listing_id].instant_booking
                 ext == [booking_id |-> b,
                         original_check_out |-> bk.check_out,
                         new_check_out |-> new_check_out,
                         additional_amount |-> pricing.additional_amount,
                         commission_amount |-> pricing.commission_amount,
                         status |-> IF instant THEN "approved" ELSE "pending"]
             IN /\ extensions' = Append(extensions, ext)
                /\ bookings' =
                     IF instant
                     THEN [bookings EXCEPT
                             ![b].check_out = new_check_out,
                             ![b].subtotal = @ + ext.additional_amount,
                             ![b].total_price = @ + ext.additional_amount,
                             ![b].commission_amount = @ + ext.commission_amount,
                             ![b].host_payout_amount =
                                @ + ext.additional_amount - ext.commission_amount]
                     ELSE bookings
        ELSE UNCHANGED <<bookings, extensions>>
     /\ UNCHANGED <<blocks, payments, refunds, payouts, disputes, snapshots,
                    ledger, audit, idem>>
     /\ UNCHANGED calls

PendingExtensions(b) ==
  {i \in DOMAIN extensions :
     extensions[i].booking_id = b /\ extensions[i].status = "pending"}

approve_extension_result(b) ==
  LET pend == PendingExtensions(b)
  IN IF pend = {} THEN "NotFoundError"
     ELSE IF Cardinality(pend) > 1 THEN "MultipleResultsFound"
     ELSE "ok"

approve_extension(b) ==
  LET pend == PendingExtensions(b)
      r == approve_extension_result(b)
  IN /\ IF r = "ok"
        THEN LET x == CHOOSE i \in pend : TRUE
                 ext == extensions[x]
             IN /\ extensions' = [extensions EXCEPT ![x].status = "approved"]
                /\ bookings' =
                     [bookings EXCEPT
                        ![b].check_out = ext.new_check_out,
                        ![b].subtotal = @ + ext.additional_amount,
                        ![b].total_price = @ + ext.additional_amount,
                        ![b].commission_amount = @ + ext.commission_amount,
                        ![b].host_payout_amount =
                           @ + ext.additional_amount - ext.commission_amount]
        ELSE UNCHANGED <<bookings, extensions>>
     /\ UNCHANGED <<blocks, payments, refunds, payouts, disputes, snapshots,
                    ledger, audit, idem>>
     /\ UNCHANGED calls

\* ------------------------------------------------------------ settlement ledger

LedgerEntry(entry_type, direction, amount, booking_id, payment_id, refund_id, payout_id, dispute_id) ==
  [entry_type |-> entry_type, direction |-> direction, amount |-> amount,
   booking_id |-> booking_id, payment_id |-> payment_id, refund_id |-> refund_id,
   payout_id |-> payout_id, dispute_id |-> dispute_id]

\* TRUE iff the guard passes
assert_positive_amount(amount) == amount > 0

\* the rows the duplicate query selects
EntriesOf(L, entry_type, field, id) ==
  {e \in DOMAIN L : e.entry_type = entry_type /\ e[field] = id}

\* the duplicate guard left out
assert_no_duplicate_ledger_entry_off(L, entry_type, field, id) == TRUE

\* TRUE iff the guard passes: the query found no existing entry
assert_no_duplicate_ledger_entry(L, entry_type, field, id) ==
  EntriesOf(L, entry_type, field, id) = {}

\* each record_* yields [err, ledger]: the outcome and the ledger afterwards
Recorded(L, amount, entry_type, field, id, entry) ==
  IF ~assert_positive_amount(amount) THEN [err |-> "ValidationError", ledger |-> L]
  ELSE IF ~assert_no_duplicate_ledger_entry(L, entry_type, field, id)
       THEN [err |-> "ValidationError", ledger |-> L]
  ELSE [err |-> "ok", ledger |-> BagAdd(L, entry)]

record_payment_received(L, p, payment) ==
  Recorded(L, payment.amount, "payment_received", "payment_id", p,
           LedgerEntry("payment_received", "credit", payment.amount,
                       payment.booking_id, p, NONE, NONE, NONE))

record_refund_issued(L, rf, refund) ==
  Recorded(L, refund.amount, "refund_issued", "refund_id", rf,
           LedgerEntry("refund_issued", "debit", refund.amount,
                       refund.booking_id, refund.payment_id, rf, NONE, NONE))

record_payout_released(L, po, payout) ==
  Recorded(L, payout.amount, "payout_released", "payout_id", po,
           LedgerEntry("payout_released", "debit", payout.amount,
                       payout.booking_id, NONE, NONE, po, NONE))

record_payout_reversed(L, po, payout) ==
  Recorded(L, payout.amount, "payout_reversed", "payout_id", po,
           LedgerEntry("payout_reversed", "credit", payout.amount,
                       payout.booking_id, NONE, NONE, po, NONE))

\* check_ledger_balance: sum of credits minus sum of debits
LedgerSum(L, direction) == SumBag(L, {e \in DOMAIN L : e.direction = direction})
check_ledger_balance(L) == LedgerSum(L, "credit") - LedgerSum(L, "debit")

\* ------------------------------------------------------------ audit trail

AuditLog(action, resource_type, resource_id, old_status, new_status, amount) ==
  [action |-> action, resource_type |-> resource_type, resource_id |-> resource_id,
   old_status |-> old_status, new_status |-> new_status, amount |-> amount]

\* ------------------------------------------------------------ payments

Payment(booking_id, amount, payment_method, gateway, status) ==
  [booking_id |-> booking_id, amount |-> amount, payment_method |-> payment_method,
   gateway |-> gateway, gateway_transaction_id |-> NONE, status |-> status]

PaymentMethods == {"card", "bank_transfer"}

InProgressPayments(b) ==
  {i \in DOMAIN payments :
     payments[i].booking_id = b /\ payments[i].status \in {"pending", "processing"}}

initiate_payment_result(b) ==
  IF b \notin DOMAIN bookings THEN "NotFoundError"
  ELSE IF bookings[b].payment_status = "paid" THEN "ValidationError"
  ELSE IF bookings[b].status = "cancelled" THEN "ValidationError"
  ELSE IF Cardinality(InProgressPayments(b)) > 1 THEN "MultipleResultsFound"
  ELSE IF InProgressPayments(b) # {} THEN "ValidationError"
  ELSE "ok"

initiate_payment(b, payment_method) ==
  LET r == initiate_payment_result(b)
  IN /\ Len(payments) < MaxPayments
     /\ IF r = "ok"
        THEN /\ payments' =
                  Append(payments,
                         IF payment_method = "bank_transfer"
                         THEN Payment(b, bookings[b].total_price, payment_method,
                                      "manual", "pending")
                         ELSE Payment(b, bookings[b].total_price, payment_method,
                                      IF payment_method = "card" THEN "stripe"
                                      ELSE payment_method,
                                      "processing"))
        ELSE UNCHANGED payments
     /\ UNCHANGED <<bookings, blocks, extensions, refunds, payouts, disputes,
                    snapshots, ledger, audit, idem>>
     /\ UNCHANGED calls

create_stripe_payment_intent_result(b) ==
  IF b \notin DOMAIN bookings THEN "NotFoundError" ELSE "ok"

create_stripe_payment_intent(b) ==
  LET r == create_stripe_payment_intent_result(b)
  IN /\ Len(payments) < MaxPayments
     /\ IF r = "ok"
        THEN /\ payments' = Append(payments,
                              Payment(b, bookings[b].total_price, "card", "stripe",
                                      "pending"))
        ELSE UNCHANGED payments
     /\ UNCHANGED <<bookings, blocks, extensions, refunds, payouts, disputes,
                    snapshots, ledger, audit, idem>>
     /\ UNCHANGED calls

\* the checks of mark_payment_paid on the payment and booking rows it reads
mark_payment_paid_checks(p) ==
  IF p \notin DOMAIN payments THEN "NotFoundError"
  ELSE IF ~assert_payment_transition(payments[p].status, "completed")
       THEN "InvalidTransition"
  ELSE IF bookings[payments[p].booking_id].status = "cancelled" THEN "ValidationError"
  ELSE "ok"

mark_payment_paid_result(p) ==
  LET idem_key == generate_idempotency_key("payment_mark_paid", p, << >>)
      rec == record_payment_received(ledger, p, payments[p])
  IN IF check_idempotency(idem_key) THEN "IdempotencyError"
     ELSE IF mark_payment_paid_checks(p) # "ok" THEN mark_payment_paid_checks(p)
     ELSE rec.err

\* the handler's effect on the database and the idempotency store
mark_payment_paid_handler(p) ==
  LET idem_key == generate_idempotency_key("payment_mark_paid", p, << >>)
      payment == payments[p]
      b == payment.booking_id
      rec == record_payment_received(ledger, p, payment)
      r == mark_payment_paid_result(p)
  IN /\ IF r = "ok"
        THEN /\ payments' = [payments EXCEPT ![p].status = "completed"]
             /\ bookings' = [bookings EXCEPT ![b].payment_status = "paid"]
             /\ ledger' = rec.ledger
             /\ audit' = BagAdd(audit,
                           AuditLog("payment_mark_paid", "payment", p,
                                    payment.status, "completed", payment.amount))
             /\ idem' = idem \cup {idem_key}
        ELSE UNCHANGED <<payments, bookings, ledger, audit, idem>>
     /\ UNCHANGED <<blocks, extensions, refunds, payouts, disputes, snapshots>>

mark_payment_paid(p) ==
  mark_payment_paid_handler(p) /\ UNCHANGED calls

\* the payments a Stripe event's payment_intent id selects
PaymentsOfIntent(intent) ==
  {i \in DOMAIN payments : payments[i].gateway_transaction_id = intent}

\* _handle_payment_succeeded: returns silently when it finds nothing to do
stripe_payment_succeeded_result(intent) ==
  LET found == PaymentsOfIntent(intent)
  IN IF found = {} THEN "ignored"
     ELSE IF Cardinality(found) > 1 THEN "MultipleResultsFound"
     ELSE IF ~assert_payment_transition(
                payments[CHOOSE i \in found : TRUE].status, "completed")
          THEN "ignored"
     ELSE "ok"

stripe_payment_succeeded(intent) ==
  LET found == PaymentsOfIntent(intent)
      r == stripe_payment_succeeded_result(intent)
  IN /\ IF r = "ok"
        THEN LET p == CHOOSE i \in found : TRUE
                 b == payments[p].booking_id
             IN /\ payments' = [payments EXCEPT ![p].status = "completed"]
                /\ bookings' = IF bookings[b].status # "cancelled"
                               THEN [bookings EXCEPT ![b].payment_status = "paid"]
                               ELSE bookings
        ELSE UNCHANGED <<payments, bookings>>
     /\ UNCHANGED <<blocks, extensions, refunds, payouts, disputes, snapshots,
                    ledger, audit, idem>>
     /\ UNCHANGED calls

\* a failed-payment handler that writes without asserting the transition
stripe_payment_failed_result_unchecked(intent) ==
  LET found == PaymentsOfIntent(intent)
  IN IF found = {} THEN "ignored"
     ELSE IF Cardinality(found) > 1 THEN "MultipleResultsFound"
     ELSE "ok"

\* _handle_payment_failed
stripe_payment_failed_result(intent) ==
  LET found == PaymentsOfIntent(intent)
  IN IF found = {} THEN "ignored"
     ELSE IF Cardinality(found) > 1 THEN "MultipleResultsFound"
     ELSE IF ~assert_payment_transition(
                payments[CHOOSE i \in found : TRUE].status, "failed")
          THEN "ignored"
     ELSE "ok"

stripe_payment_failed(intent) ==
  LET found == PaymentsOfIntent(intent)
      r == stripe_payment_failed_result(intent)
  IN /\ IF r = "ok"
        THEN payments' = [payments EXCEPT ![CHOOSE i \in found : TRUE].status = "failed"]
        ELSE UNCHANGED payments
     /\ UNCHANGED <<bookings, blocks, extensions, refunds, payouts, disputes,
                    snapshots, ledger, audit, idem>>
     /\ UNCHANGED calls

\* ------------------------------------------------------------ refunds

RefundsOfPayment(p) == {i \in DOMAIN refunds : refunds[i].payment_id = p}

Refund(booking_id, payment_id, amount, reason) ==
  [booking_id |-> booking_id, payment_id |-> payment_id, amount |-> amount,
   reason |-> reason, status |-> "approved", gateway_refund_id |-> NONE]

\* partial refund: payout.amount = max(0, payout.amount - (refund - commission)),
\* the commission on the refund truncated to an integer
ReducedPayoutAmount(payout_amount, refund_amount, commission_rate) ==
  LET refund_commission == (refund_amount * commission_rate) \div 100
      payout_reduction == refund_amount - refund_commission
  IN IF payout_amount - payout_reduction > 0 THEN payout_amount - payout_reduction
     ELSE 0

\* the "Handle host payout reversal/reduction" step of refund_payment
RefundPayoutStep(P, b, is_full_refund, refund_amount, commission_rate) ==
  LET of == {i \in DOMAIN P : P[i].booking_id = b}
  IN IF of = {} THEN P
     ELSE LET po == CHOOSE i \in of : TRUE
          IN IF is_full_refund
             THEN IF P[po].status \in {"pending", "eligible", "released"}
                  THEN [P EXCEPT ![po].status = "reversed"]
                  ELSE P
             ELSE [P EXCEPT ![po].amount =
                     ReducedPayoutAmount(@, refund_amount, commission_rate)]

\* the checks of refund_payment that come before the gateway is called;
\* amount = NONE: no amount in the request, a full refund
refund_payment_checks(p, amount, reason) ==
  LET idem_key == generate_idempotency_key("refund_create", p, <<amount, reason>>)
      payment == payments[p]
      refund_amount == IF amount # NONE THEN amount ELSE payment.amount
      total_refunded == SumSeq(refunds, RefundsOfPayment(p))
  IN IF check_idempotency(idem_key) THEN "IdempotencyError"
     ELSE IF p \notin DOMAIN payments THEN "NotFoundError"
     ELSE IF ~assert_payment_transition(payment.status, "refunded")
          THEN "InvalidTransition"
     ELSE IF refund_amount > payment.amount THEN "ValidationError"
     ELSE IF total_refunded + refund_amount > payment.amount
          THEN "ValidationError"
     ELSE "ok"

\* gateway_service.process_refund is called only for a payment that has a
\* gateway transaction.  outcome: "succeeded", "failed" (RefundResult with
\* success False) or "RuntimeError" (raised outside production).
refund_payment_gateway_result(p, amount, reason, outcome) ==
  LET payment == payments[p]
      refund_amount == IF amount # NONE THEN amount ELSE payment.amount
      rf == Len(refunds) + 1
      rec == record_refund_issued(ledger, rf,
                                  Refund(payment.booking_id, p, refund_amount, reason))
      checks == refund_payment_checks(p, amount, reason)
  IN IF checks # "ok" THEN checks
     ELSE IF payment.gateway_transaction_id # NONE /\ outcome = "RuntimeError"
          THEN "RuntimeError"
     ELSE rec.err

\* the outcome when the gateway, if called at all, reports success
refund_payment_result(p, amount, reason) ==
  refund_payment_gateway_result(p, amount, reason, "succeeded")

\* the handler's effect on the database and the idempotency store
refund_payment_gateway_handler(p, amount, reason, outcome) ==
  LET idem_key == generate_idempotency_key("refund_create", p, <<amount, reason>>)
      payment == payments[p]
      b == payment.booking_id
      refund_amount == IF amount # NONE THEN amount ELSE payment.amount
      total_refunded == SumSeq(refunds, RefundsOfPayment(p))
      rf == Len(refunds) + 1
      gateway_refund_id ==
        IF payment.gateway_transaction_id # NONE /\ outcome = "succeeded"
        THEN rf ELSE NONE
      refund == [Refund(b, p, refund_amount, reason)
                   EXCEPT !.gateway_refund_id = gateway_refund_id]
      rec == record_refund_issued(ledger, rf, refund)
      is_full_refund == total_refunded + refund_amount >= bookings[b].total_price
      r == refund_payment_gateway_result(p, amount, reason, outcome)
  IN /\ Len(refunds) < MaxRefunds
     /\ IF r = "ok"
        THEN /\ refunds' = Append(refunds, refund)
             /\ ledger' = rec.ledger
             /\ payments' = [payments EXCEPT ![p].status = "refunded"]
             /\ bookings' =
                  [bookings EXCEPT
                     ![b].refund_amount = total_refunded + refund_amount,
                     ![b].payment_status =
                        IF is_full_refund THEN "refunded" ELSE "partially_refunded"]
             /\ payouts' = RefundPayoutStep(payouts, b, is_full_refund, refund_amount,
                                            bookings[b].commission_rate)
             /\ audit' = BagAdd(audit,
                           AuditLog("refund_create", "refund", rf, "none", "none",
                                    refund_amount))
             /\ idem' = idem \cup {idem_key}
        ELSE UNCHANGED <<refunds, ledger, payments, bookings, payouts, audit, idem>>
     /\ UNCHANGED <<blocks, extensions, disputes, snapshots>>

\* refund_payment with the gateway's outcome as an input
refund_payment_gateway(p, amount, reason, outcome) ==
  refund_payment_gateway_handler(p, amount, reason, outcome) /\ UNCHANGED calls

\* refund_payment of a payment for which the gateway is not called or succeeds
refund_payment_handler(p, amount, reason) ==
  refund_payment_gateway_handler(p, amount, reason, "succeeded")

refund_payment(p, amount, reason) ==
  refund_payment_handler(p, amount, reason) /\ UNCHANGED calls

CompletedPayments(b) ==
  {i \in DOMAIN payments :
     payments[i].booking_id = b /\ payments[i].status = "completed"}

\* the admin panel's POST /refunds
create_refund_result(b, amount, reason) ==
  LET found == CompletedPayments(b)
  IN IF b \notin DOMAIN bookings THEN "NotFoundError"
     ELSE IF amount > bookings[b].total_price THEN "ValidationError"
     ELSE IF Cardinality(found) > 1 THEN "MultipleResultsFound"
     ELSE IF found = {} THEN "ValidationError"
     ELSE "ok"

create_refund(b, amount, reason) ==
  LET found == CompletedPayments(b)
      rf == Len(refunds) + 1
      r == create_refund_result(b, amount, reason)
  IN /\ Len(refunds) < MaxRefunds
     /\ IF r = "ok"
        THEN /\ refunds' = Append(refunds,
                             Refund(b, CHOOSE i \in found : TRUE, amount, reason))
             /\ bookings' =
                  [bookings EXCEPT
                     ![b].refund_amount = amount,
                     ![b].payment_status =
                        IF amount = bookings[b].total_price THEN "refunded"
                        ELSE "partially_refunded"]
             /\ audit' = BagAdd(audit,
                           AuditLog("process_refund", "refund", b, "none", "none",
                                    amount))
        ELSE UNCHANGED <<refunds, bookings, audit>>
     /\ UNCHANGED <<blocks, extensions, payments, payouts, disputes, snapshots,
                    ledger, idem>>
     /\ UNCHANGED calls

\* ------------------------------------------------------------ payouts

\* the booking check of mark_payout_eligible and release_payout: skipped for a
\* payout with no booking_id
PayoutBookingCheck(payout) ==
  IF payout.booking_id # NONE /\ payout.booking_id \in DOMAIN bookings
  THEN can_release_payout(bookings[payout.booking_id].status,
                          bookings[payout.booking_id].payment_status)
  ELSE TRUE

\* mark_payout_eligible without its assert_payout_transition call
mark_payout_eligible_result_unasserted(po) ==
  IF po \notin DOMAIN payouts THEN "NotFoundError"
  ELSE IF ~PayoutBookingCheck(payouts[po]) THEN "ValidationError"
  ELSE "ok"

mark_payout_eligible_result(po) ==
  IF po \notin DOMAIN payouts THEN "NotFoundError"
  ELSE IF ~assert_payout_transition(payouts[po].status, "eligible")
       THEN "InvalidTransition"
  ELSE IF ~PayoutBookingCheck(payouts[po]) THEN "ValidationError"
  ELSE "ok"

mark_payout_eligible(po) ==
  LET r == mark_payout_eligible_result(po)
  IN /\ IF r = "ok"
        THEN payouts' = [payouts EXCEPT ![po].status = "eligible"]
        ELSE UNCHANGED payouts
     /\ UNCHANGED <<bookings, blocks, extensions, payments, refunds, disputes,
                    snapshots, ledger, audit, idem>>
     /\ UNCHANGED calls

\* the checks of release_payout on the payout and booking rows it reads
release_payout_checks(po) ==
  IF po \notin DOMAIN payouts THEN "NotFoundError"
  ELSE IF ~assert_payout_transition(payouts[po].status, "released")
       THEN "InvalidTransition"
  ELSE IF ~PayoutBookingCheck(payouts[po]) THEN "ValidationError"
  ELSE "ok"

release_payout_result(po) ==
  LET idem_key == generate_idempotency_key("payout_release", po, << >>)
      rec == record_payout_released(ledger, po, payouts[po])
  IN IF check_idempotency(idem_key) THEN "IdempotencyError"
     ELSE IF release_payout_checks(po) # "ok" THEN release_payout_checks(po)
     ELSE rec.err

\* release_payout storing its idempotency key on entry, before its checks
release_payout_handler_store_first(po) ==
  LET idem_key == generate_idempotency_key("payout_release", po, << >>)
      payout == payouts[po]
      rec == record_payout_released(ledger, po, payout)
      r == release_payout_result(po)
  IN /\ idem' = idem \cup {idem_key}
     /\ IF r = "ok"
        THEN /\ payouts' = [payouts EXCEPT ![po].status = "released"]
             /\ ledger' = rec.ledger
             /\ audit' = BagAdd(audit,
                           AuditLog("payout_release", "payout", po, payout.status,
                                    "released", payout.amount))
        ELSE UNCHANGED <<payouts, ledger, audit>>
     /\ UNCHANGED <<bookings, blocks, extensions, payments, refunds, disputes,
                    snapshots>>

\* the handler's effect on the database and the idempotency store
release_payout_handler(po) ==
  LET idem_key == generate_idempotency_key("payout_release", po, << >>)
      payout == payouts[po]
      rec == record_payout_released(ledger, po, payout)
      r == release_payout_result(po)
  IN /\ IF r = "ok"
        THEN /\ payouts' = [payouts EXCEPT ![po].status = "released"]
             /\ ledger' = rec.ledger
             /\ audit' = BagAdd(audit,
                           AuditLog("payout_release", "payout", po, payout.status,
                                    "released", payout.amount))
             /\ idem' = idem \cup {idem_key}
        ELSE UNCHANGED <<payouts, ledger, audit, idem>>
     /\ UNCHANGED <<bookings, blocks, extensions, payments, refunds, disputes,
                    snapshots>>

release_payout(po) ==
  release_payout_handler(po) /\ UNCHANGED calls

reverse_payout_result(po) ==
  LET idem_key == generate_idempotency_key("payout_reverse", po, << >>)
      payout == payouts[po]
      rec == record_payout_reversed(ledger, po, payout)
  IN IF check_idempotency(idem_key) THEN "IdempotencyError"
     ELSE IF po \notin DOMAIN payouts THEN "NotFoundError"
     ELSE IF ~assert_payout_transition(payout.status, "reversed")
          THEN "InvalidTransition"
     ELSE rec.err

\* the handler's effect on the database and the idempotency store
reverse_payout_handler(po) ==
  LET idem_key == generate_idempotency_key("payout_reverse", po, << >>)
      payout == payouts[po]
      rec == record_payout_reversed(ledger, po, payout)
      r == reverse_payout_result(po)
  IN /\ IF r = "ok"
        THEN /\ payouts' = [payouts EXCEPT ![po].status = "reversed"]
             /\ ledger' = rec.ledger
             /\ audit' = BagAdd(audit,
                           AuditLog("payout_reverse", "payout", po, payout.status,
                                    "reversed", payout.amount))
             /\ idem' = idem \cup {idem_key}
        ELSE UNCHANGED <<payouts, ledger, audit, idem>>
     /\ UNCHANGED <<bookings, blocks, extensions, payments, refunds, disputes,
                    snapshots>>

reverse_payout(po) ==
  reverse_payout_handler(po) /\ UNCHANGED calls

\* ------------------------------------------------------------ disputes

\* _create_dispute_ledger_entry: direction and amount by entry type
DisputeLedgerEntry(d, booking_id, entry_type, amount) ==
  LedgerEntry(entry_type,
              IF entry_type = "dispute_reversed" THEN "credit" ELSE "debit",
              IF entry_type = "dispute_opened" THEN 0 ELSE amount,
              booking_id, NONE, NONE, NONE, d)

\* disputes.booking_id is a foreign key to bookings
open_dispute_result(b) ==
  IF b \notin DOMAIN bookings THEN "IntegrityError" ELSE "ok"

open_dispute(b) ==
  LET d == Len(disputes) + 1
      r == open_dispute_result(b)
  IN /\ Len(disputes) < MaxDisputes
     /\ IF r = "ok"
        THEN /\ disputes' = Append(disputes,
                              [booking_id |-> b, status |-> "opened",
                               resolution_type |-> "none", refund_granted |-> 0,
                               payout_adjusted |-> 0])
             /\ ledger' = BagAdd(ledger, DisputeLedgerEntry(d, b, "dispute_opened", 0))
        ELSE UNCHANGED <<disputes, ledger>>
     /\ UNCHANGED <<bookings, blocks, extensions, payments, refunds, payouts,
                    snapshots, audit, idem>>
     /\ UNCHANGED calls

start_review_result(d) ==
  IF d \notin DOMAIN disputes THEN "NotFoundError"
  ELSE IF ~assert_dispute_transition(disputes[d].status, "under_review")
       THEN "InvalidTransition"
  ELSE "ok"

start_review(d) ==
  LET r == start_review_result(d)
  IN /\ IF r = "ok"
        THEN disputes' = [disputes EXCEPT ![d].status = "under_review"]
        ELSE UNCHANGED disputes
     /\ UNCHANGED <<bookings, blocks, extensions, payments, refunds, payouts,
                    snapshots, ledger, audit, idem>>
     /\ UNCHANGED calls

\* _adjust_payout_for_dispute
adjust_payout_for_dispute(P, b, adjustment_amount) ==
  LET of == {i \in DOMAIN P : P[i].booking_id = b}
  IN IF of = {} THEN P
     ELSE LET po == CHOOSE i \in of : TRUE
          IN IF P[po].status \in {"pending", "eligible"}
             THEN IF adjustment_amount >= P[po].amount
                  THEN [P EXCEPT ![po].status = "reversed"]
                  ELSE [P EXCEPT ![po].amount = @ - adjustment_amount]
             ELSE P

resolve_dispute_result(d, resolution_type, refund_amount, payout_adjustment) ==
  IF resolution_type \notin VALID_RESOLUTION_TYPES THEN "ValidationError"
  ELSE IF d \notin DOMAIN disputes THEN "NotFoundError"
  ELSE IF ~can_resolve_dispute(disputes[d].status) THEN "ValidationError"
  ELSE IF ~assert_dispute_transition(disputes[d].status, "resolved")
       THEN "InvalidTransition"
  ELSE "ok"

resolve_dispute(d, resolution_type, refund_amount, payout_adjustment) ==
  LET b == disputes[d].booking_id
      r == resolve_dispute_result(d, resolution_type, refund_amount, payout_adjustment)
  IN /\ IF r = "ok"
        THEN /\ disputes' = [disputes EXCEPT
                               ![d].status = "resolved",
                               ![d].resolution_type = resolution_type,
                               ![d].refund_granted = refund_amount,
                               ![d].payout_adjusted = payout_adjustment]
             /\ payouts' =
                  IF resolution_type = "payout_reversal" /\ payout_adjustment > 0
                  THEN adjust_payout_for_dispute(payouts, b, payout_adjustment)
                  ELSE payouts
             /\ ledger' = BagAdd(ledger,
                            DisputeLedgerEntry(d, b, "dispute_resolved",
                              IF refund_amount # 0 THEN refund_amount
                              ELSE payout_adjustment))
        ELSE UNCHANGED <<disputes, payouts, ledger>>
     /\ UNCHANGED <<bookings, blocks, extensions, payments, refunds, snapshots,
                    audit, idem>>
     /\ UNCHANGED calls

reverse_resolution_result(d) ==
  IF d \notin DOMAIN disputes THEN "NotFoundError"
  ELSE IF ~can_reverse_dispute(disputes[d].status) THEN "ValidationError"
  ELSE IF ~assert_dispute_transition(disputes[d].status, "reversed")
       THEN "InvalidTransition"
  ELSE "ok"

\* a reversal that takes the dispute_resolved entry back out of the ledger
\* instead of layering a dispute_reversed entry on top
reverse_resolution_unwinding(d) ==
  LET r == reverse_resolution_result(d)
  IN /\ IF r = "ok"
        THEN /\ disputes' = [disputes EXCEPT ![d].status = "reversed"]
             /\ ledger' = BagRemoveAll(ledger,
                            EntriesOf(ledger, "dispute_resolved", "dispute_id", d))
        ELSE UNCHANGED <<disputes, ledger>>
     /\ UNCHANGED <<bookings, blocks, extensions, payments, refunds, payouts,
                    snapshots, audit, idem>>
     /\ UNCHANGED calls

reverse_resolution(d) ==
  LET r == reverse_resolution_result(d)
  IN /\ IF r = "ok"
        THEN /\ disputes' = [disputes EXCEPT ![d].status = "reversed"]
             /\ ledger' = BagAdd(ledger,
                            DisputeLedgerEntry(d, disputes[d].booking_id,
                              "dispute_reversed",
                              IF disputes[d].refund_granted # 0
                              THEN disputes[d].refund_granted
                              ELSE disputes[d].payout_adjusted))
        ELSE UNCHANGED <<disputes, ledger>>
     /\ UNCHANGED <<bookings, blocks, extensions, payments, refunds, payouts,
                    snapshots, audit, idem>>
     /\ UNCHANGED calls

\* admin PATCH /disputes/{dispute_id}: the only check is that the row exists
admin_resolve_dispute_result(d) ==
  IF d \notin DOMAIN disputes THEN "NotFoundError" ELSE "ok"

\* resolve_dispute of the admin router; one AuditLog row per accepted call
admin_resolve_dispute(d, refund_amount) ==
  LET r == admin_resolve_dispute_result(d)
  IN /\ BagCount(audit, {e \in DOMAIN audit : e.action = "resolve_dispute"})
          < MaxAdminResolutions
     /\ BagCount(ledger, EntriesOf(ledger, "dispute_reversed", "dispute_id", d))
          <= MaxAdminResolutions
     /\ IF r = "ok"
        THEN /\ disputes' = [disputes EXCEPT ![d].status = "resolved",
                                             ![d].refund_granted = refund_amount]
             /\ audit' = BagAdd(audit, AuditLog("resolve_dispute", "dispute", d,
                                                "none", "none", refund_amount))
        ELSE UNCHANGED <<disputes, audit>>
     /\ UNCHANGED <<bookings, blocks, extensions, payments, refunds, payouts,
                    snapshots, ledger, idem>>
     /\ UNCHANGED calls

\* ------------------------------------------------------------ background tasks

\* _cleanup_expired_data: a bulk DELETE of the audit rows created more than
\* 90 days ago.  aged: the task runs more than 90 days after the last audit
\* row was written, so every row is older than the cutoff; otherwise none is.
cleanup_expired_data(aged) ==
  /\ audit' = IF aged THEN EmptyBag ELSE audit
  /\ UNCHANGED <<bookings, blocks, extensions, payments, refunds, payouts,
                 disputes, snapshots, ledger, idem>>
  /\ UNCHANGED calls

\* the bookings _process_daily_payouts selects on the day today: completed,
\* paid, checked out by yesterday
PayableBookings(today) ==
  {b \in DOMAIN bookings :
     /\ bookings[b].status = "completed"
     /\ bookings[b].payment_status = "paid"
     /\ bookings[b].check_out <= today - 1}

\* _process_daily_payouts on the day today, with settings.minimum_payout_amount
\* = minimum.  All listings belong to one host, so the selected bookings form
\* one group; a group whose total is below the minimum is skipped.
process_daily_payouts(minimum, today) ==
  LET host_booking_list == PayableBookings(today)
      total_amount == SumSeq([b \in DOMAIN bookings |->
                                [amount |-> bookings[b].host_payout_amount]],
                             host_booking_list)
  IN /\ Len(payouts) < MaxBookings + MaxPayoutRuns
     /\ payouts' =
          IF host_booking_list = {} \/ total_amount < minimum
          THEN payouts
          ELSE Append(payouts,
                      [HostPayout(NONE, total_amount, today)
                         EXCEPT !.booking_ids = host_booking_list])
     /\ UNCHANGED <<bookings, blocks, extensions, payments, refunds, disputes,
                    snapshots, ledger, audit, idem>>
     /\ UNCHANGED calls

\* ------------------------------------------------------------ the system

BookingIds == 1..MaxBookings
PaymentIds == 1..MaxPayments
PayoutIds == 1..MaxBookings
DisputeIds == 1..MaxDisputes
\* the stays requested: [check_in, check_out) with both days in Days
Stays == {st \in Days \X Days : st[1] < st[2]}
\* the one-night stay the sequential runs book; the days before, on and after
\* its check-in are the cancellation dates
LastStay == {st \in Stays : st[2] = MaxDay /\ st[2] - st[1] = 1}
Callers == {"guest", "host", "admin"}
\* the source of the bookings of the sequential runs: the one with a commission
MarketplaceSources == {src \in BookingSources : get_commission_rate(src) > 0}
\* amounts of a refund_payment request; NONE: no amount, a full refund
RefundAmounts == {NONE, 40}
\* amounts of an admin create_refund request
AdminRefundAmounts == {100}
Reasons == {"requested"}
IntentIds == {1}
\* what gateway_service.process_refund may do
GatewayOutcomes == {"succeeded", "failed", "RuntimeError"}
\* (resolution_type, refund_amount, payout_adjustment) of a resolve request
Resolutions ==
  {<<"refund", 50, 0>>, <<"payout_reversal", 0, 200>>}

\* Requests served one at a time.  Extension requests run under SpecExt.
Next ==
  \/ \E l \in ListingIds, src \in MarketplaceSources, st \in LastStay :
       create_booking(l, src, st[1], st[2])
  \/ \E b \in BookingIds : confirm_booking(b)
  \/ \E b \in BookingIds, who \in Callers, today \in Days : cancel_booking(b, who, today)
  \/ \E b \in BookingIds : check_in_booking(b)
  \/ \E b \in BookingIds : complete_booking(b)
  \/ \E b \in BookingIds, m \in PaymentMethods : initiate_payment(b, m)
  \/ \E b \in BookingIds : create_stripe_payment_intent(b)
  \/ \E p \in PaymentIds : mark_payment_paid(p)
  \/ \E i \in IntentIds : stripe_payment_succeeded(i)
  \/ \E i \in IntentIds : stripe_payment_failed(i)
  \/ \E p \in PaymentIds, a \in RefundAmounts, rs \in Reasons :
       refund_payment(p, a, rs)
  \/ \E b \in BookingIds, a \in AdminRefundAmounts, rs \in Reasons :
       create_refund(b, a, rs)
  \/ \E po \in PayoutIds : mark_payout_eligible(po)
  \/ \E po \in PayoutIds : release_payout(po)
  \/ \E po \in PayoutIds : reverse_payout(po)
  \/ \E b \in BookingIds : open_dispute(b)
  \/ \E d \in DisputeIds : start_review(d)
  \/ \E d \in DisputeIds, rs \in Resolutions : resolve_dispute(d, rs[1], rs[2], rs[3])
  \/ \E d \in DisputeIds : reverse_resolution(d)

Spec == Init /\ [][Next]_vars

\* ------------------------------------------------- stay extensions (SpecExt)

ExtensionStays == {st \in Stays : st[2] < MaxDay}

\* Bookings, their payment and their extensions, one request at a time.
NextExt ==
  \/ \E l \in ListingIds, src \in BookingSources, st \in ExtensionStays :
       create_booking(l, src, st[1], st[2])
  \/ \E b \in BookingIds : confirm_booking(b)
  \/ \E b \in BookingIds, who \in Callers, today \in Days : cancel_booking(b, who, today)
  \/ \E b \in BookingIds, m \in PaymentMethods : initiate_payment(b, m)
  \/ \E p \in PaymentIds : mark_payment_paid(p)
  \/ \E b \in BookingIds : check_in_booking(b)
  \/ \E b \in BookingIds : complete_booking(b)
  \/ \E b \in BookingIds, co \in Days : request_extension(b, co)
  \/ \E b \in BookingIds : approve_extension(b)

SpecExt == Init /\ [][NextExt]_vars

\* --------------------------------------- stays of several bookings (SpecStay)

MaxStayBookings == 2
StayBookingIds == 1..MaxStayBookings

\* The booking, payment and extension requests of several guests, one at a
\* time.
NextStay ==
  \/ \E l \in ListingIds, src \in MarketplaceSources, st \in Stays :
       create_booking_within(MaxStayBookings, l, src, st[1], st[2])
  \/ \E b \in StayBookingIds : confirm_booking(b)
  \/ \E b \in StayBookingIds, who \in Callers, today \in Days :
       cancel_booking(b, who, today)
  \/ \E b \in StayBookingIds, m \in PaymentMethods : initiate_payment(b, m)
  \/ \E p \in PaymentIds : mark_payment_paid(p)
  \/ \E b \in StayBookingIds : check_in_booking(b)
  \/ \E b \in StayBookingIds : complete_booking(b)
  \/ \E b \in StayBookingIds, co \in Days : request_extension(b, co)
  \/ \E b \in StayBookingIds : approve_extension(b)

SpecStay == Init /\ [][NextStay]_vars

\* ------------------------------------- concurrent create_booking (SpecConc)

MaxProcs == 2

\* a create_booking request being served: pc is the handler's position
CreateBookingCall(l, source, check_in, check_out) ==
  [op |-> "create_booking", listing_id |-> l, source |-> source,
   check_in |-> check_in, check_out |-> check_out, pc |-> "check",
   result |-> "none"]

CreateBookingCalls ==
  {CreateBookingCall(l, "VOLO_MARKETPLACE", st[1], st[2]) : l \in ListingIds, st \in Stays}

\* MaxProcs create_booking requests arrive together on an empty calendar
InitConc ==
  /\ bookings = << >>
  /\ blocks = EmptyBag
  /\ extensions = << >>
  /\ payments = << >>
  /\ refunds = << >>
  /\ payouts = << >>
  /\ disputes = << >>
  /\ snapshots = << >>
  /\ ledger = EmptyBag
  /\ audit = EmptyBag
  /\ idem = {}
  /\ calls \in [1..MaxProcs -> CreateBookingCalls]

\* the handler up to and including its availability query
create_booking_check(i) ==
  LET c == calls[i]
      r == create_booking_result(blocks, c.listing_id, c.check_in, c.check_out)
  IN /\ c.pc = "check"
     /\ calls' = [calls EXCEPT ![i].pc = IF r = "ok" THEN "insert" ELSE "done",
                               ![i].result = IF r = "ok" THEN "none" ELSE r]
     /\ UNCHANGED <<bookings, blocks, extensions, payments, refunds, payouts,
                    disputes, snapshots, ledger, audit, idem>>

\* the rest of the handler: the booking row and its calendar block
create_booking_insert(i) ==
  LET c == calls[i]
  IN /\ c.pc = "insert"
     /\ bookings' = Append(bookings,
                      NewBooking(c.listing_id, c.source, c.check_in, c.check_out))
     /\ blocks' = BagAdd(blocks, CalendarBlock(c.listing_id, c.check_in, c.check_out))
     /\ calls' = [calls EXCEPT ![i].pc = "done", ![i].result = "ok"]
     /\ UNCHANGED <<extensions, payments, refunds, payouts, disputes, snapshots,
                    ledger, audit, idem>>

NextConc ==
  \/ \E i \in 1..MaxProcs : create_booking_check(i)
  \/ \E i \in 1..MaxProcs : create_booking_insert(i)

SpecConc == InitConc /\ [][NextConc]_vars

\* --------------------------------- direct settlement service calls (SpecSvc)

\* amounts of the rows the service is called with
SvcAmounts == {0, 50, 100}

\* two payments, a refund and a payout of one booking, nothing recorded yet
InitSvc ==
  /\ bookings = << >>
  /\ blocks = EmptyBag
  /\ extensions = << >>
  /\ \E a1 \in SvcAmounts, a2 \in SvcAmounts :
       payments = << Payment(1, a1, "card", "stripe", "completed"),
                     Payment(1, a2, "card", "stripe", "completed") >>
  /\ \E a \in SvcAmounts : refunds = << Refund(1, 1, a, "requested") >>
  /\ \E a \in SvcAmounts : payouts = << HostPayout(1, a, MaxDay) >>
  /\ disputes = << >>
  /\ snapshots = << >>
  /\ ledger = EmptyBag
  /\ audit = EmptyBag
  /\ idem = {}
  /\ calls = << >>

\* a call of a record_* method: the ledger it leaves (unchanged when it raises)
ServiceCall(rec) ==
  /\ ledger' = rec.ledger
  /\ UNCHANGED <<bookings, blocks, extensions, payments, refunds, payouts,
                 disputes, snapshots, audit, idem, calls>>

call_record_payment_received(p) ==
  ServiceCall(record_payment_received(ledger, p, payments[p]))

call_record_refund_issued(rf) ==
  ServiceCall(record_refund_issued(ledger, rf, refunds[rf]))

call_record_payout_released(po) ==
  ServiceCall(record_payout_released(ledger, po, payouts[po]))

call_record_payout_reversed(po) ==
  ServiceCall(record_payout_reversed(ledger, po, payouts[po]))

NextSvc ==
  \/ \E p \in DOMAIN payments : call_record_payment_received(p)
  \/ \E rf \in DOMAIN refunds : call_record_refund_issued(rf)
  \/ \E po \in DOMAIN payouts : call_record_payout_released(po)
  \/ \E po \in DOMAIN payouts : call_record_payout_reversed(po)

SpecSvc == InitSvc /\ [][NextSvc]_vars

\* ------------------------------------ the transition assertions (SpecFn)

\* every status of the three machines, and two values no table has
Statuses ==
  DOMAIN BOOKING_TRANSITIONS \cup DOMAIN PAYMENT_TRANSITIONS
    \cup DOMAIN PAYOUT_TRANSITIONS \cup {"unknown", ""}

AssertCall(op, current, target) ==
  [op |-> op, current |-> current, target |-> target, pc |-> "call",
   result |-> "none"]

AssertOps ==
  {"assert_booking_transition", "assert_payment_transition",
   "assert_payout_transition"}

\* one call of an assert_*_transition function with any pair of values
InitFn ==
  /\ bookings = << >>
  /\ blocks = EmptyBag
  /\ extensions = << >>
  /\ payments = << >>
  /\ refunds = << >>
  /\ payouts = << >>
  /\ disputes = << >>
  /\ snapshots = << >>
  /\ ledger = EmptyBag
  /\ audit = EmptyBag
  /\ idem = {}
  /\ \E op \in AssertOps, current \in Statuses, target \in Statuses :
       calls = << AssertCall(op, current, target) >>

\* the call returns (result "ok") or raises (result "InvalidTransition")
Returned(i, passes) ==
  /\ calls' = [calls EXCEPT ![i].pc = "done",
                            ![i].result = IF passes THEN "ok"
                                          ELSE "InvalidTransition"]
  /\ UNCHANGED <<bookings, blocks, extensions, payments, refunds, payouts,
                 disputes, snapshots, ledger, audit, idem>>

call_assert_booking_transition(i) ==
  /\ calls[i].pc = "call"
  /\ calls[i].op = "assert_booking_transition"
  /\ Returned(i, assert_booking_transition(calls[i].current, calls[i].target))

call_assert_payment_transition(i) ==
  /\ calls[i].pc = "call"
  /\ calls[i].op = "assert_payment_transition"
  /\ Returned(i, assert_payment_transition(calls[i].current, calls[i].target))

call_assert_payout_transition(i) ==
  /\ calls[i].pc = "call"
  /\ calls[i].op = "assert_payout_transition"
  /\ Returned(i, assert_payout_transition(calls[i].current, calls[i].target))

NextFn ==
  \/ \E i \in DOMAIN calls : call_assert_booking_transition(i)
  \/ \E i \in DOMAIN calls : call_assert_payment_transition(i)
  \/ \E i \in DOMAIN calls : call_assert_payout_transition(i)

SpecFn == InitFn /\ [][NextFn]_vars

\* ----------------------- a failure before the commit of a command (SpecRetry)

\* The financial commands that carry an idempotency key: the operation, the
\* entity id and, for a refund, the amount.
FinancialCommands ==
  {[op |-> "mark_payment_paid", id |-> p, amount |-> NONE] : p \in PaymentIds}
  \cup {[op |-> "refund_payment", id |-> p, amount |-> a] :
          p \in PaymentIds, a \in RefundAmounts}
  \cup {[op |-> o, id |-> po, amount |-> NONE] :
          o \in {"release_payout", "reverse_payout"}, po \in PayoutIds}

command_result(c) ==
  CASE c.op = "mark_payment_paid" -> mark_payment_paid_result(c.id)
    [] c.op = "refund_payment" -> refund_payment_result(c.id, c.amount, "requested")
    [] c.op = "release_payout" -> release_payout_result(c.id)
    [] c.op = "reverse_payout" -> reverse_payout_result(c.id)

command_handler(c) ==
  \/ c.op = "mark_payment_paid" /\ mark_payment_paid_handler(c.id)
  \/ c.op = "refund_payment" /\ refund_payment_handler(c.id, c.amount, "requested")
  \/ c.op = "release_payout" /\ release_payout_handler(c.id)
  \/ c.op = "reverse_payout" /\ reverse_payout_handler(c.id)

\* the rows a financial command may write in its transaction
Written ==
  [bookings |-> bookings, payments |-> payments, refunds |-> refunds,
   payouts |-> payouts, ledger |-> ledger, audit |-> audit]

\* no request is between its handler and its commit
NoOpenTransaction ==
  IF calls = << >> THEN TRUE ELSE calls[1].pc = "failed"

\* The handler of command c runs to its return statement: its writes are in
\* the open transaction, its idempotency key is in the in-process store.
handler_returns(c) ==
  /\ NoOpenTransaction
  /\ command_handler(c)
  /\ calls' = << [cmd |-> c, pc |-> "returned", result |-> command_result(c),
                  before |-> Written, keys |-> idem] >>

\* The handler of command c is cut short (an error or a timeout at one of its
\* database or gateway calls) before it reaches store_idempotency_result:
\* the transaction is rolled back.
fails_in_handler(c) ==
  /\ NoOpenTransaction
  /\ calls' = << [cmd |-> c, pc |-> "failed", result |-> command_result(c),
                  before |-> Written, keys |-> idem] >>
  /\ UNCHANGED <<db, idem>>

\* the session commits the transaction of the request
commit ==
  /\ calls # << >> /\ calls[1].pc = "returned"
  /\ calls' = << >>
  /\ UNCHANGED <<db, idem>>

\* The request fails after store_idempotency_result and before the commit
\* (the flush that follows the store in refund_payment, or the commit itself):
\* the transaction is rolled back, the in-process store is not.
fails_before_commit ==
  /\ calls # << >> /\ calls[1].pc = "returned"
  /\ bookings' = calls[1].before.bookings
  /\ payments' = calls[1].before.payments
  /\ refunds' = calls[1].before.refunds
  /\ payouts' = calls[1].before.payouts
  /\ ledger' = calls[1].before.ledger
  /\ audit' = calls[1].before.audit
  /\ calls' = << [calls[1] EXCEPT !.pc = "failed"] >>
  /\ UNCHANGED <<blocks, extensions, disputes, snapshots, idem>>

\* Requests served one at a time; a financial command may fail before its
\* commit and be sent again.
NextRetry ==
  \/ /\ calls = << >>
     /\ \E l \in ListingIds, src \in MarketplaceSources, st \in LastStay :
          create_booking(l, src, st[1], st[2])
  \/ calls = << >> /\ \E b \in BookingIds : confirm_booking(b)
  \/ calls = << >> /\ \E b \in BookingIds, m \in PaymentMethods : initiate_payment(b, m)
  \/ calls = << >> /\ \E b \in BookingIds : check_in_booking(b)
  \/ calls = << >> /\ \E b \in BookingIds : complete_booking(b)
  \/ calls = << >> /\ \E po \in PayoutIds : mark_payout_eligible(po)
  \/ \E c \in FinancialCommands : handler_returns(c)
  \/ \E c \in FinancialCommands : fails_in_handler(c)
  \/ commit
  \/ fails_before_commit

SpecRetry == Init /\ [][NextRetry]_vars

\* ------------------- two overlapping executions of one command (SpecRace)

\* the commands sent twice at once: mark_payment_paid of a payment,
\* release_payout of a payout
RaceCommands ==
  {[op |-> "mark_payment_paid", id |-> p] : p \in PaymentIds}
  \cup {[op |-> "release_payout", id |-> po] : po \in PayoutIds}

\* a request being served: pc is the handler's position, seen the status the
\* handler read, valid whether the command was acceptable when the two arrived
RaceCall(c) ==
  [op |-> c.op, id |-> c.id, pc |-> "idem", result |-> "none", seen |-> "none",
   valid |-> (IF c.op = "mark_payment_paid" THEN mark_payment_paid_result(c.id)
              ELSE release_payout_result(c.id)) = "ok"]

race_key(c) ==
  IF c.op = "mark_payment_paid"
  THEN generate_idempotency_key("payment_mark_paid", c.id, << >>)
  ELSE generate_idempotency_key("payout_release", c.id, << >>)

\* MaxProcs executions of command c start together
arrive(c) ==
  /\ calls = << >>
  /\ calls' = [i \in 1..MaxProcs |-> RaceCall(c)]
  /\ UNCHANGED <<db, idem>>

Finished(i, result) ==
  calls' = [calls EXCEPT ![i].pc = "done", ![i].result = result]

\* the idempotency check at the top of the handler
check_key(i) ==
  /\ calls # << >> /\ calls[i].pc = "idem"
  /\ IF check_idempotency(race_key(calls[i]))
     THEN Finished(i, "IdempotencyError")
     ELSE calls' = [calls EXCEPT ![i].pc = "state"]
  /\ UNCHANGED <<db, idem>>

\* the handler reads the row and checks the transition and the booking
check_state(i) ==
  LET c == calls[i]
      r == IF c.op = "mark_payment_paid" THEN mark_payment_paid_checks(c.id)
           ELSE release_payout_checks(c.id)
      status == IF c.op = "mark_payment_paid" THEN payments[c.id].status
                ELSE payouts[c.id].status
  IN /\ calls # << >> /\ c.pc = "state"
     /\ IF r = "ok"
        THEN calls' = [calls EXCEPT ![i].pc = "ledger", ![i].seen = status]
        ELSE Finished(i, r)
     /\ UNCHANGED <<db, idem>>

\* the guards of record_payment_received / record_payout_released, the
\* duplicate query among them
check_ledger(i) ==
  LET c == calls[i]
      rec == IF c.op = "mark_payment_paid"
             THEN record_payment_received(ledger, c.id, payments[c.id])
             ELSE record_payout_released(ledger, c.id, payouts[c.id])
  IN /\ calls # << >> /\ c.pc = "ledger"
     /\ IF rec.err = "ok"
        THEN calls' = [calls EXCEPT ![i].pc = "write"]
        ELSE Finished(i, rec.err)
     /\ UNCHANGED <<db, idem>>

\* the rows the handler writes, its audit entry and its idempotency key
write_rows(i) ==
  LET c == calls[i]
  IN /\ calls # << >> /\ c.pc = "write"
     /\ IF c.op = "mark_payment_paid"
        THEN /\ payments' = [payments EXCEPT ![c.id].status = "completed"]
             /\ bookings' = [bookings EXCEPT
                               ![payments[c.id].booking_id].payment_status = "paid"]
             /\ ledger' = ledger (+)
                            record_payment_received(EmptyBag, c.id, payments[c.id]).ledger
             /\ audit' = BagAdd(audit,
                           AuditLog("payment_mark_paid", "payment", c.id, c.seen,
                                    "completed", payments[c.id].amount))
             /\ UNCHANGED payouts
        ELSE /\ payouts' = [payouts EXCEPT ![c.id].status = "released"]
             /\ ledger' = ledger (+)
                            record_payout_released(EmptyBag, c.id, payouts[c.id]).ledger
             /\ audit' = BagAdd(audit,
                           AuditLog("payout_release", "payout", c.id, c.seen,
                                    "released", payouts[c.id].amount))
             /\ UNCHANGED <<payments, bookings>>
     /\ idem' = idem \cup {race_key(c)}
     /\ Finished(i, "ok")
     /\ UNCHANGED <<blocks, extensions, refunds, disputes, snapshots>>

\* both requests have been answered
respond ==
  /\ calls # << >> /\ \A i \in DOMAIN calls : calls[i].pc = "done"
  /\ calls' = << >>
  /\ UNCHANGED <<db, idem>>

\* Requests served one at a time, except that mark_payment_paid and
\* release_payout may be sent twice at once.
NextRace ==
  \/ /\ calls = << >>
     /\ \E l \in ListingIds, src \in MarketplaceSources, st \in LastStay :
          create_booking(l, src, st[1], st[2])
  \/ calls = << >> /\ \E b \in BookingIds : confirm_booking(b)
  \/ calls = << >> /\ \E b \in BookingIds, m \in PaymentMethods : initiate_payment(b, m)
  \/ calls = << >> /\ \E p \in PaymentIds : mark_payment_paid(p)
  \/ calls = << >> /\ \E b \in BookingIds : check_in_booking(b)
  \/ calls = << >> /\ \E b \in BookingIds : complete_booking(b)
  \/ calls = << >> /\ \E po \in PayoutIds : mark_payout_eligible(po)
  \/ \E c \in RaceCommands : arrive(c)
  \/ \E i \in 1..MaxProcs : check_key(i)
  \/ \E i \in 1..MaxProcs : check_state(i)
  \/ \E i \in 1..MaxProcs : check_ledger(i)
  \/ \E i \in 1..MaxProcs : write_rows(i)
  \/ respond

SpecRace == Init /\ [][NextRace]_vars

\* --------------- conflicting transitions of one booking at once (SpecConflict)

\* a cancel_booking and a check_in_booking request for booking b arrive
\* together; pc is each handler's position
arrive_conflicting(b, who, today) ==
  /\ calls = << >>
  /\ calls' = << [op |-> "cancel_booking", id |-> b, who |-> who, today |-> today,
                  pc |-> "check", result |-> "none"],
                 [op |-> "check_in_booking", id |-> b, who |-> "host",
                  today |-> today, pc |-> "check", result |-> "none"] >>
  /\ UNCHANGED <<db, idem>>

\* the handler reads the booking row and runs its checks
conflict_check(i) ==
  LET c == calls[i]
      r == IF c.op = "cancel_booking" THEN cancel_booking_result(c.id)
           ELSE check_in_booking_result(c.id)
  IN /\ calls # << >> /\ c.pc = "check"
     /\ IF r = "ok"
        THEN calls' = [calls EXCEPT ![i].pc = "write"]
        ELSE Finished(i, r)
     /\ UNCHANGED <<db, idem>>

\* the handler's updates reach the database
conflict_write(i) ==
  LET c == calls[i]
  IN /\ calls # << >> /\ c.pc = "write"
     /\ IF c.op = "cancel_booking"
        THEN cancel_booking_writes(c.id, c.who, c.today)
        ELSE check_in_booking_writes(c.id) /\ UNCHANGED blocks
     /\ Finished(i, "ok")
     /\ UNCHANGED <<extensions, payments, refunds, payouts, disputes, snapshots,
                    ledger, audit, idem>>

\* Requests served one at a time, except that a cancellation and a check-in
\* of one booking may be sent at once.
NextConflict ==
  \/ /\ calls = << >>
     /\ \E l \in ListingIds, src \in MarketplaceSources, st \in LastStay :
          create_booking(l, src, st[1], st[2])
  \/ calls = << >> /\ \E b \in BookingIds : confirm_booking(b)
  \/ calls = << >> /\ \E b \in BookingIds, m \in PaymentMethods : initiate_payment(b, m)
  \/ calls = << >> /\ \E p \in PaymentIds : mark_payment_paid(p)
  \/ \E b \in BookingIds, who \in Callers, today \in Days :
       arrive_conflicting(b, who, today)
  \/ \E i \in 1..2 : conflict_check(i)
  \/ \E i \in 1..2 : conflict_write(i)
  \/ respond

SpecConflict == Init /\ [][NextConflict]_vars

\* ------------------------------------- the dispute endpoints (SpecDispute)

\* Requests served one at a time: bookings, the dispute service's commands
\* and the admin router's dispute resolution.
NextDispute ==
  \/ \E l \in ListingIds, src \in BookingSources, st \in Stays :
       create_booking(l, src, st[1], st[2])
  \/ \E b \in BookingIds : open_dispute(b)
  \/ \E d \in DisputeIds : start_review(d)
  \/ \E d \in DisputeIds, rs \in Resolutions : resolve_dispute(d, rs[1], rs[2], rs[3])
  \/ \E d \in DisputeIds : reverse_resolution(d)
  \/ \E d \in DisputeIds, a \in RefundAmounts : admin_resolve_dispute(d, a)

SpecDispute == Init /\ [][NextDispute]_vars

\* ------------------------ payments known to the card gateway (SpecGateway)

\* A booking with one card payment in progress whose gateway_transaction_id
\* column holds the PaymentIntent id the gateway's events carry.
InitGateway ==
  /\ \E l \in ListingIds, src \in BookingSources, st \in LastStay,
        status \in {"pending", "processing"}, intent \in IntentIds :
       /\ bookings = << NewBooking(l, src, st[1], st[2]) >>
       /\ blocks = SetToBag({CalendarBlock(l, st[1], st[2])})
       /\ payments = << [Payment(1, NewBooking(l, src, st[1], st[2]).total_price,
                                 "card", "stripe", status)
                           EXCEPT !.gateway_transaction_id = intent] >>
  /\ extensions = << >>
  /\ refunds = << >>
  /\ payouts = << >>
  /\ disputes = << >>
  /\ snapshots = << >>
  /\ ledger = EmptyBag
  /\ audit = EmptyBag
  /\ idem = {}
  /\ calls = << >>

\* Requests and gateway events served one at a time.
NextGateway ==
  \/ \E b \in BookingIds : confirm_booking(b)
  \/ \E b \in BookingIds, who \in Callers, today \in Days : cancel_booking(b, who, today)
  \/ \E b \in BookingIds, m \in PaymentMethods : initiate_payment(b, m)
  \/ \E b \in BookingIds : create_stripe_payment_intent(b)
  \/ \E p \in PaymentIds : mark_payment_paid(p)
  \/ \E i \in IntentIds : stripe_payment_succeeded(i)
  \/ \E i \in IntentIds : stripe_payment_failed(i)
  \/ \E p \in PaymentIds, a \in RefundAmounts, rs \in Reasons,
        outcome \in GatewayOutcomes :
       refund_payment_gateway(p, a, rs, outcome)
  \/ \E b \in BookingIds, a \in AdminRefundAmounts, rs \in Reasons :
       create_refund(b, a, rs)

SpecGateway == InitGateway /\ [][NextGateway]_vars

\* ---------------- every command that reaches the financial records (SpecBooks)

\* Requests and the cleanup task served one at a time: the commands of Spec
\* together with stay extensions, the admin dispute resolution and the
\* periodic cleanup.
NextBooks ==
  \/ \E src \in MarketplaceSources, st \in ExtensionStays :
       create_booking(2, src, st[1], st[2])
  \/ \E b \in BookingIds : confirm_booking(b)
  \/ \E b \in BookingIds : cancel_booking(b, "guest", 1)
  \/ \E b \in BookingIds : check_in_booking(b)
  \/ \E b \in BookingIds : complete_booking(b)
  \/ \E b \in BookingIds : request_extension(b, MaxDay)
  \/ \E b \in BookingIds : approve_extension(b)
  \/ \E b \in BookingIds : initiate_payment(b, "card")
  \/ \E p \in PaymentIds : mark_payment_paid(p)
  \/ \E p \in PaymentIds, rs \in Reasons : refund_payment(p, NONE, rs)
  \/ \E b \in BookingIds, a \in AdminRefundAmounts, rs \in Reasons :
       create_refund(b, a, rs)
  \/ \E po \in PayoutIds : mark_payout_eligible(po)
  \/ \E po \in PayoutIds : release_payout(po)
  \/ \E po \in PayoutIds : reverse_payout(po)
  \/ \E b \in BookingIds : open_dispute(b)
  \/ \E d \in DisputeIds : start_review(d)
  \/ \E d \in DisputeIds : resolve_dispute(d, "refund", 50, 0)
  \/ \E d \in DisputeIds : reverse_resolution(d)
  \/ \E d \in DisputeIds : admin_resolve_dispute(d, NONE)
  \/ \E aged \in BOOLEAN : cleanup_expired_data(aged)

SpecBooks == Init /\ [][NextBooks]_vars

\* ------------------------- the commission and refund calculations (SpecCalc)

MaxTotal == 60
MaxRefundDay == 10
RefundDays == 1..MaxRefundDay
\* the BookingSource values and a string that is none of them
CalcSources == DOMAIN COMMISSION_RATES \cup {"OTHER"}
\* the CancellationPolicy values and a string that is none of them
CalcPolicies == DOMAIN POLICY_RULES \cup {"other"}

\* a call of one of the calculation functions with its arguments
CalcCall(op, args) ==
  [op |-> op, args |-> args, pc |-> "call", result |-> "none"]

\* one call of calculate_commission or calculate_booking_amounts, or two
\* calls of calculate_refund_percentage for one policy and check-in date
InitCalc ==
  /\ bookings = << >>
  /\ blocks = EmptyBag
  /\ extensions = << >>
  /\ payments = << >>
  /\ refunds = << >>
  /\ payouts = << >>
  /\ disputes = << >>
  /\ snapshots = << >>
  /\ ledger = EmptyBag
  /\ audit = EmptyBag
  /\ idem = {}
  /\ \/ \E source \in CalcSources, total \in 0..MaxTotal :
          calls = << CalcCall("calculate_commission", <<source, total>>) >>
     \/ \E source \in CalcSources, nightly_rate \in {100, 10000},
           nights \in Days, cleaning_fee \in {0, 50, 2000} :
          calls = << CalcCall("calculate_booking_amounts",
                              <<source, nightly_rate, nights, cleaning_fee>>) >>
     \/ \E policy \in CalcPolicies, check_in \in RefundDays,
           d1 \in RefundDays, d2 \in RefundDays :
          /\ d1 <= d2
          /\ calls = << CalcCall("calculate_refund_percentage",
                                 <<policy, check_in, d1>>),
                        CalcCall("calculate_refund_percentage",
                                 <<policy, check_in, d2>>) >>

\* the call returns its value
Calculated(i, value) ==
  /\ calls' = [calls EXCEPT ![i].pc = "done", ![i].result = value]
  /\ UNCHANGED <<bookings, blocks, extensions, payments, refunds, payouts,
                 disputes, snapshots, ledger, audit, idem>>

call_calculate_commission(i) ==
  /\ calls[i].pc = "call"
  /\ calls[i].op = "calculate_commission"
  /\ Calculated(i, calculate_commission(calls[i].args[1], calls[i].args[2]))

call_calculate_booking_amounts(i) ==
  /\ calls[i].pc = "call"
  /\ calls[i].op = "calculate_booking_amounts"
  /\ Calculated(i, calculate_booking_amounts(calls[i].args[1], calls[i].args[2],
                                             calls[i].args[3], calls[i].args[4]))

call_calculate_refund_percentage(i) ==
  /\ calls[i].pc = "call"
  /\ calls[i].op = "calculate_refund_percentage"
  /\ Calculated(i, calculate_refund_percentage(calls[i].args[1], calls[i].args[2],
                                               calls[i].args[3]))

NextCalc ==
  \/ \E i \in DOMAIN calls : call_calculate_commission(i)
  \/ \E i \in DOMAIN calls : call_calculate_booking_amounts(i)
  \/ \E i \in DOMAIN calls : call_calculate_refund_percentage(i)

SpecCalc == InitCalc /\ [][NextCalc]_vars

\* ------------------------------------- the daily payout task (SpecPayouts)

\* settings.minimum_payout_amount: the default of config.py, and a deployment
\* whose minimum is below the payout of one booking
MinimumPayoutAmounts == {50, 100000}
\* the days the task runs on: the day of the check-out and the day after
TaskDays == {MaxDay, MaxDay + 1}
AllPayoutIds == 1..(MaxBookings + MaxPayoutRuns)

\* Requests and runs of the daily payout task, one at a time.
NextPayouts ==
  \/ \E src \in MarketplaceSources, st \in LastStay :
       create_booking(1, src, st[1], st[2])
  \/ \E b \in BookingIds : cancel_booking(b, "guest", 1)
  \/ \E b \in BookingIds : check_in_booking(b)
  \/ \E b \in BookingIds : complete_booking(b)
  \/ \E b \in BookingIds : initiate_payment(b, "card")
  \/ \E p \in PaymentIds : mark_payment_paid(p)
  \/ \E p \in PaymentIds, rs \in Reasons : refund_payment(p, NONE, rs)
  \/ \E po \in AllPayoutIds : mark_payout_eligible(po)
  \/ \E po \in AllPayoutIds : release_payout(po)
  \/ \E po \in AllPayoutIds : reverse_payout(po)
  \/ \E m \in MinimumPayoutAmounts, today \in TaskDays : process_daily_payouts(m, today)

SpecPayouts == Init /\ [][NextPayouts]_vars

\* ------------------------------------------- rejected commands (SpecReject)

\* the commands whose rejection is followed: one request of each kind
RejectCommands ==
  {[op |-> o, id |-> 1] :
     o \in {"mark_payment_paid", "refund_payment", "release_payout",
            "reverse_payout", "cancel_booking", "check_in_booking",
            "complete_booking", "resolve_dispute", "reverse_resolution"}}

request_result(c) ==
  CASE c.op = "mark_payment_paid" -> mark_payment_paid_result(c.id)
    [] c.op = "refund_payment" -> refund_payment_result(c.id, NONE, "requested")
    [] c.op = "release_payout" -> release_payout_result(c.id)
    [] c.op = "reverse_payout" -> reverse_payout_result(c.id)
    [] c.op = "cancel_booking" -> cancel_booking_result(c.id)
    [] c.op = "check_in_booking" -> check_in_booking_result(c.id)
    [] c.op = "complete_booking" -> complete_booking_result(c.id)
    [] c.op = "resolve_dispute" -> resolve_dispute_result(c.id, "refund", 50, 0)
    [] c.op = "reverse_resolution" -> reverse_resolution_result(c.id)

\* the handler of request c, from its first line to its return or its raise
request(c) ==
  \/ c.op = "mark_payment_paid" /\ mark_payment_paid(c.id)
  \/ c.op = "refund_payment" /\ refund_payment(c.id, NONE, "requested")
  \/ c.op = "release_payout" /\ release_payout(c.id)
  \/ c.op = "reverse_payout" /\ reverse_payout(c.id)
  \/ c.op = "cancel_booking" /\ cancel_booking(c.id, "guest", 1)
  \/ c.op = "check_in_booking" /\ check_in_booking(c.id)
  \/ c.op = "complete_booking" /\ complete_booking(c.id)
  \/ c.op = "resolve_dispute" /\ resolve_dispute(c.id, "refund", 50, 0)
  \/ c.op = "reverse_resolution" /\ reverse_resolution(c.id)

\* The client of request c receives the error response of a rejected call and
\* keeps it (the first one only); the handler's step itself is request(c).
error_response(c) ==
  /\ calls = << >>
  /\ request_result(c) # "ok"
  /\ calls' = << [cmd |-> c, result |-> request_result(c)] >>
  /\ UNCHANGED <<db, idem>>

\* Requests served one at a time, the first rejected one remembered.
NextReject ==
  \/ \E src \in MarketplaceSources, st \in LastStay :
       create_booking(1, src, st[1], st[2])
  \/ \E b \in BookingIds : initiate_payment(b, "card")
  \/ \E po \in PayoutIds : mark_payout_eligible(po)
  \/ \E b \in BookingIds : open_dispute(b)
  \/ \E d \in DisputeIds : start_review(d)
  \/ \E c \in RejectCommands : request(c)
  \/ \E c \in RejectCommands : error_response(c)

SpecReject == Init /\ [][NextReject]_vars

\* ----------------------------------- the availability query (SpecAvail)

\* the calendars the query is put to: at most two blocks, those of one
\* listing not overlapping each other (the blocks of bookings made in turn)
AvailCalendars ==
  LET rows == {CalendarBlock(l, st[1], st[2]) : l \in ListingIds, st \in Stays}
      apart(r, q) == \/ r.listing_id # q.listing_id
                     \/ r.end_date <= q.start_date
                     \/ q.end_date <= r.start_date
  IN {EmptyBag} \cup {SetToBag({r}) : r \in rows}
     \cup {SetToBag({pr[1], pr[2]}) :
             pr \in {rq \in rows \X rows : rq[1] # rq[2] /\ apart(rq[1], rq[2])}}

\* one call of check_availability on a calendar
InitAvail ==
  /\ bookings = << >>
  /\ blocks \in AvailCalendars
  /\ extensions = << >>
  /\ payments = << >>
  /\ refunds = << >>
  /\ payouts = << >>
  /\ disputes = << >>
  /\ snapshots = << >>
  /\ ledger = EmptyBag
  /\ audit = EmptyBag
  /\ idem = {}
  /\ \E l \in ListingIds, st \in Stays :
       calls = << CalcCall("check_availability", <<l, st[1], st[2]>>) >>

call_check_availability(i) ==
  /\ calls[i].pc = "call"
  /\ calls[i].op = "check_availability"
  /\ Calculated(i, check_availability(blocks, calls[i].args[1], calls[i].args[2],
                                      calls[i].args[3]))

NextAvail == \E i \in DOMAIN calls : call_check_availability(i)

SpecAvail == InitAvail /\ [][NextAvail]_vars

\* ------------------------------- the dispute state functions (SpecDisputeFn)

DisputeStatuses == DOMAIN DISPUTE_TRANSITIONS \cup {"unknown"}

\* for one pair of values: a call of assert_dispute_transition and a call of
\* each predicate on the current status
InitDisputeFn ==
  /\ bookings = << >>
  /\ blocks = EmptyBag
  /\ extensions = << >>
  /\ payments = << >>
  /\ refunds = << >>
  /\ payouts = << >>
  /\ disputes = << >>
  /\ snapshots = << >>
  /\ ledger = EmptyBag
  /\ audit = EmptyBag
  /\ idem = {}
  /\ \E current \in DisputeStatuses, target \in DisputeStatuses :
       calls = << CalcCall("assert_dispute_transition", <<current, target>>),
                  CalcCall("can_resolve_dispute", <<current>>),
                  CalcCall("can_reverse_dispute", <<current>>) >>

\* the value is TRUE iff the function returns without raising
call_assert_dispute_transition(i) ==
  /\ calls[i].pc = "call"
  /\ calls[i].op = "assert_dispute_transition"
  /\ Calculated(i, assert_dispute_transition(calls[i].args[1], calls[i].args[2]))

call_can_resolve_dispute(i) ==
  /\ calls[i].pc = "call"
  /\ calls[i].op = "can_resolve_dispute"
  /\ Calculated(i, can_resolve_dispute(calls[i].args[1]))

call_can_reverse_dispute(i) ==
  /\ calls[i].pc = "call"
  /\ calls[i].op = "can_reverse_dispute"
  /\ Calculated(i, can_reverse_dispute(calls[i].args[1]))

NextDisputeFn ==
  \/ \E i \in DOMAIN calls : call_assert_dispute_transition(i)
  \/ \E i \in DOMAIN calls : call_can_resolve_dispute(i)
  \/ \E i \in DOMAIN calls : call_can_reverse_dispute(i)

SpecDisputeFn == InitDisputeFn /\ [][NextDisputeFn]_vars

\* ------------------------------ reconciliation and reporting (SpecRecon)

\* a settlement_ledger row with the date it takes effect
DatedLedgerEntry(entry_type, amount, effective_date) ==
  [entry_type |-> entry_type,
   direction |-> IF entry_type \in {"payment_received", "payout_reversed"}
                 THEN "credit" ELSE "debit",
   amount |-> amount, effective_date |-> effective_date]

\* the rows of ledger L of one type with effective_date in [first, last]
LedgerRows(L, entry_type, first, last) ==
  {e \in DOMAIN L : /\ e.entry_type = entry_type
                    /\ e.effective_date >= first
                    /\ e.effective_date <= last}

\* update_period_totals: the totals it writes on the period
update_period_totals(L, period_start, period_end) ==
  LET total_payments_received ==
        SumBag(L, LedgerRows(L, "payment_received", period_start, period_end))
      total_refunds_issued ==
        SumBag(L, LedgerRows(L, "refund_issued", period_start, period_end))
      total_payouts_released ==
        SumBag(L, LedgerRows(L, "payout_released", period_start, period_end))
  IN [total_payments_received |-> total_payments_received,
      total_refunds_issued |-> total_refunds_issued,
      total_payouts_released |-> total_payouts_released,
      net_position |-> total_payments_received - total_refunds_issued
                         - total_payouts_released]

\* get_daily_settlement_summary
get_daily_settlement_summary(L, report_date) ==
  LET payments_sum == SumBag(L, LedgerRows(L, "payment_received", report_date, report_date))
      refunds_sum == SumBag(L, LedgerRows(L, "refund_issued", report_date, report_date))
      payouts_sum == SumBag(L, LedgerRows(L, "payout_released", report_date, report_date))
      reversals_sum == SumBag(L, LedgerRows(L, "payout_reversed", report_date, report_date))
  IN [total_payments_received |-> payments_sum,
      total_refunds_issued |-> refunds_sum,
      total_payouts_released |-> payouts_sum,
      total_payouts_reversed |-> reversals_sum,
      net_position |-> payments_sum - refunds_sum - payouts_sum + reversals_sum]

\* The ledgers the totals are taken of: the entries of one booking's history
\* (payment 100, payout 91 released, payout reversed, refund), each step on
\* the day of the step before or later, cut off after any number of steps;
\* the release and the reversal may be missing from the history.
ReconLedgers ==
  {SetToBag({h[i] : i \in 1..n}) :
     n \in 0..3,
     h \in UNION {
       {<<DatedLedgerEntry("payment_received", 100, d[1]),
          DatedLedgerEntry("payout_released", 91, d[2]),
          DatedLedgerEntry(third, IF third = "payout_reversed" THEN 91 ELSE 100, d[3])>> :
          third \in {"payout_reversed", "refund_issued"}}
       \cup {<<DatedLedgerEntry("payment_received", 100, d[1]),
               DatedLedgerEntry("payout_reversed", 91, d[2]),
               DatedLedgerEntry("refund_issued", 100, d[3])>>} :
       d \in {t \in Days \X Days \X Days : t[1] <= t[2] /\ t[2] <= t[3]}}}

\* one ledger, and for one date a call of each of the two totals
InitRecon ==
  /\ bookings = << >>
  /\ blocks = EmptyBag
  /\ extensions = << >>
  /\ payments = << >>
  /\ refunds = << >>
  /\ payouts = << >>
  /\ disputes = << >>
  /\ snapshots = << >>
  /\ ledger \in ReconLedgers
  /\ audit = EmptyBag
  /\ idem = {}
  /\ \E target_date \in Days :
       calls = << CalcCall("update_period_totals", <<target_date, target_date>>),
                  CalcCall("get_daily_settlement_summary", <<target_date>>) >>

call_update_period_totals(i) ==
  /\ calls[i].pc = "call"
  /\ calls[i].op = "update_period_totals"
  /\ Calculated(i, update_period_totals(ledger, calls[i].args[1], calls[i].args[2]))

call_get_daily_settlement_summary(i) ==
  /\ calls[i].pc = "call"
  /\ calls[i].op = "get_daily_settlement_summary"
  /\ Calculated(i, get_daily_settlement_summary(ledger, calls[i].args[1]))

NextRecon ==
  \/ \E i \in DOMAIN calls : call_update_period_totals(i)
  \/ \E i \in DOMAIN calls : call_get_daily_settlement_summary(i)

SpecRecon == InitRecon /\ [][NextRecon]_vars

\* ------------------------------- resolve, then reverse (SpecNeutral)

\* the resolutions tried: a refund, a payout reversal of the whole payout and
\* of a part of it, and no action
NeutralResolutions ==
  Resolutions \cup {<<"payout_reversal", 0, 20>>, <<"no_action", 0, 0>>}

\* The ledger balance and the payouts are noted just before dispute d is
\* resolved; until the resolution is reversed only that dispute moves.
note_before_resolution(d) ==
  /\ calls = << >>
  /\ d \in DOMAIN disputes
  /\ can_resolve_dispute(disputes[d].status)
  /\ calls' = << [dispute_id |-> d,
                  net_position |-> check_ledger_balance(ledger),
                  payouts |-> payouts] >>
  /\ UNCHANGED <<db, idem>>

\* Requests served one at a time; a resolution, once noted, is made and then
\* reversed with no other request in between.
NextNeutral ==
  \/ /\ calls = << >>
     /\ \E l \in ListingIds, src \in MarketplaceSources, st \in LastStay :
          create_booking(l, src, st[1], st[2])
  \/ calls = << >> /\ \E b \in BookingIds : confirm_booking(b)
  \/ calls = << >> /\ \E b \in BookingIds, m \in PaymentMethods : initiate_payment(b, m)
  \/ calls = << >> /\ \E p \in PaymentIds : mark_payment_paid(p)
  \/ calls = << >> /\ \E b \in BookingIds : check_in_booking(b)
  \/ calls = << >> /\ \E b \in BookingIds : complete_booking(b)
  \/ calls = << >> /\ \E po \in PayoutIds : mark_payout_eligible(po)
  \/ calls = << >> /\ \E po \in PayoutIds : release_payout(po)
  \/ calls = << >> /\ \E b \in BookingIds : open_dispute(b)
  \/ calls = << >> /\ \E d \in DisputeIds : start_review(d)
  \/ \E d \in DisputeIds : note_before_resolution(d)
  \/ /\ calls # << >>
     /\ \E rs \in NeutralResolutions :
          resolve_dispute(calls[1].dispute_id, rs[1], rs[2], rs[3])
  \/ calls # << >> /\ reverse_resolution(calls[1].dispute_id)

SpecNeutral == Init /\ [][NextNeutral]_vars

\* ====================================================== properties: C1..C10

\* C1 (ledger non-negativity): after every command the sum of the credit
\* entries of the settlement ledger minus the sum of its debit entries is >= 0.
C1_LedgerNonNegative == check_ledger_balance(ledger) >= 0

\* A payout was released, then the payment refunded in full, no dispute
\* involved: the ledger has paid out more than it received.
C1_RefundAfterRelease ==
  /\ disputes = << >>
  /\ \E e \in DOMAIN ledger : e.entry_type = "payout_released"
  /\ \E e \in DOMAIN ledger : e.entry_type = "refund_issued"
  /\ \A e \in DOMAIN ledger : e.entry_type # "payout_reversed"
  /\ check_ledger_balance(ledger) < 0

\* two stays on the same listing share a night
StaysOverlap(a, b) ==
  /\ a.listing_id = b.listing_id
  /\ a.check_in < b.check_out
  /\ b.check_in < a.check_out

\* C2 (no double booking under concurrency): of two concurrent create_booking
\* requests for overlapping stays on one listing exactly one succeeds and the
\* other fails with DatesNotAvailable, and no two bookings ever overlap.
C2_NoDoubleBooking ==
  /\ \A i, j \in DOMAIN bookings :
       i < j => ~StaysOverlap(bookings[i], bookings[j])
  /\ \A i, j \in DOMAIN calls :
       (/\ i < j
        /\ StaysOverlap(calls[i], calls[j])
        /\ calls[i].pc = "done"
        /\ calls[j].pc = "done")
       => {calls[i].result, calls[j].result} = {"ok", "DatesNotAvailable"}

\* Both requests succeeded: two bookings and two calendar blocks overlap.
C2_DoubleBooked ==
  /\ \E i, j \in DOMAIN bookings : i < j /\ StaysOverlap(bookings[i], bookings[j])
  /\ BagCardinality(blocks) = 2
  /\ \A i \in DOMAIN calls : calls[i].pc = "done" /\ calls[i].result = "ok"

AuditEntries(A, action, id) ==
  {a \in DOMAIN A : a.action = action /\ a.resource_id = id}

\* once `key` is stored, the command answers `result` and has left exactly one
\* ledger entry and one audited transition for the entity
ReplayedOnce(key, result, entry_type, id, action) ==
  key \in idem =>
    /\ result = "IdempotencyError"
    /\ BagCount(ledger, EntriesOf(ledger, entry_type, "payment_id", id)
                          \cup EntriesOf(ledger, entry_type, "payout_id", id)) = 1
    /\ BagCount(audit, AuditEntries(audit, action, id)) = 1

\* C3 (idempotent replay): once mark_payment_paid, release_payout or
\* reverse_payout has succeeded for an id, the same command for that id fails
\* with IdempotencyError, and the entity has made exactly one such transition
\* and the ledger holds exactly one entry of that type for it.
C3_IdempotentReplay ==
  /\ \A p \in DOMAIN payments :
       ReplayedOnce(generate_idempotency_key("payment_mark_paid", p, << >>),
                    mark_payment_paid_result(p), "payment_received", p,
                    "payment_mark_paid")
  /\ \A po \in DOMAIN payouts :
       /\ ReplayedOnce(generate_idempotency_key("payout_release", po, << >>),
                       release_payout_result(po), "payout_released", po,
                       "payout_release")
       /\ ReplayedOnce(generate_idempotency_key("payout_reverse", po, << >>),
                       reverse_payout_result(po), "payout_reversed", po,
                       "payout_reverse")

\* All three commands have succeeded once and a replay of each is refused.
C3_AllReplayed ==
  \E p \in DOMAIN payments, po \in DOMAIN payouts :
    /\ generate_idempotency_key("payment_mark_paid", p, << >>) \in idem
    /\ generate_idempotency_key("payout_release", po, << >>) \in idem
    /\ generate_idempotency_key("payout_reverse", po, << >>) \in idem
    /\ mark_payment_paid_result(p) = "IdempotencyError"
    /\ release_payout_result(po) = "IdempotencyError"
    /\ reverse_payout_result(po) = "IdempotencyError"

\* at most one entry of the type for the id; once it is there, a further call
\* (outcome rec) raises and leaves the ledger as it is, and the entries of the
\* id sum to the one amount
RecordedOnce(entry_type, field, id, amount, rec) ==
  LET E == EntriesOf(ledger, entry_type, field, id)
  IN /\ BagCount(ledger, E) <= 1
     /\ E # {} => /\ rec.err = "ValidationError"
                  /\ rec.ledger = ledger
                  /\ SumBag(ledger, E) = amount

\* C4 (no double settlement): a second record_payment_received for a payment
\* raises and leaves exactly one payment_received entry, whose amount is the
\* ledger sum for it; likewise record_refund_issued per refund and
\* record_payout_released / record_payout_reversed per payout.
C4_NoDoubleSettlement ==
  /\ \A p \in DOMAIN payments :
       RecordedOnce("payment_received", "payment_id", p, payments[p].amount,
                    record_payment_received(ledger, p, payments[p]))
  /\ \A rf \in DOMAIN refunds :
       RecordedOnce("refund_issued", "refund_id", rf, refunds[rf].amount,
                    record_refund_issued(ledger, rf, refunds[rf]))
  /\ \A po \in DOMAIN payouts :
       /\ RecordedOnce("payout_released", "payout_id", po, payouts[po].amount,
                       record_payout_released(ledger, po, payouts[po]))
       /\ RecordedOnce("payout_reversed", "payout_id", po, payouts[po].amount,
                       record_payout_reversed(ledger, po, payouts[po]))

\* Every kind of entry has been recorded once and a second call of each raises.
C4_SecondCallsRaise ==
  /\ \A p \in DOMAIN payments :
       /\ BagCount(ledger, EntriesOf(ledger, "payment_received", "payment_id", p)) = 1
       /\ record_payment_received(ledger, p, payments[p]).err = "ValidationError"
  /\ BagCount(ledger, EntriesOf(ledger, "refund_issued", "refund_id", 1)) = 1
  /\ record_refund_issued(ledger, 1, refunds[1]).err = "ValidationError"
  /\ BagCount(ledger, EntriesOf(ledger, "payout_released", "payout_id", 1)) = 1
  /\ BagCount(ledger, EntriesOf(ledger, "payout_reversed", "payout_id", 1)) = 1
  /\ record_payout_released(ledger, 1, payouts[1]).err = "ValidationError"
  /\ record_payout_reversed(ledger, 1, payouts[1]).err = "ValidationError"

\* C5 (snapshot singularity): a booking has exactly one financial snapshot if
\* it is completed and none otherwise; complete_booking on a completed booking
\* is refused by the transition check, ahead of the snapshot step, and a
\* booking never has more than one payout.
C5_SnapshotSingularity ==
  \A b \in DOMAIN bookings :
    /\ Cardinality(SnapshotsOfBooking(snapshots, b)) =
         IF bookings[b].status = "completed" THEN 1 ELSE 0
    /\ bookings[b].status = "completed" =>
         complete_booking_result(b) = "InvalidTransition"
    /\ Cardinality(PayoutsOfBooking(b)) <= 1

\* A completed booking with its snapshot and payout, its second completion refused.
C5_CompletedOnce ==
  \E b \in DOMAIN bookings :
    /\ bookings[b].status = "completed"
    /\ Cardinality(SnapshotsOfBooking(snapshots, b)) = 1
    /\ Cardinality(PayoutsOfBooking(b)) = 1
    /\ complete_booking_result(b) = "InvalidTransition"

\* the tables of the specification, as (current, target) pairs
C6_SpecTable ==
  [assert_booking_transition |->
     {<<"pending", "confirmed">>, <<"pending", "cancelled">>,
      <<"confirmed", "checked_in">>, <<"confirmed", "cancelled">>,
      <<"checked_in", "completed">>},
   assert_payment_transition |->
     {<<"pending", "processing">>, <<"pending", "completed">>,
      <<"pending", "failed">>, <<"processing", "completed">>,
      <<"processing", "failed">>, <<"completed", "refunded">>},
   assert_payout_transition |->
     {<<"pending", "eligible">>, <<"pending", "reversed">>,
      <<"eligible", "released">>, <<"eligible", "reversed">>,
      <<"released", "reversed">>}]

\* C6 (transition closure): for the booking, payment and payout machines and
\* every pair (current, target), the assert function returns without error
\* iff the specification's table allows target from current; terminal states
\* and values outside the table allow nothing.
C6_TransitionClosure ==
  \A i \in DOMAIN calls :
    calls[i].pc = "done" =>
      /\ calls[i].result \in {"ok", "InvalidTransition"}
      /\ calls[i].result = "ok" <=>
           <<calls[i].current, calls[i].target>> \in C6_SpecTable[calls[i].op]

\* assert_payout_transition("released", "reversed") has returned without error.
C6_ClawbackAllowed ==
  \E i \in DOMAIN calls :
    /\ calls[i].pc = "done"
    /\ calls[i].op = "assert_payout_transition"
    /\ calls[i].current = "released"
    /\ calls[i].target = "reversed"
    /\ calls[i].result = "ok"

\* the condition under which payout po may be released
ReleaseAllowed(po) ==
  LET bk == bookings[payouts[po].booking_id]
  IN /\ payouts[po].status = "eligible"
     /\ bk.status # "cancelled"
     /\ bk.payment_status = "paid"
     /\ bk.status \in {"completed", "checked_in"}

\* a step releases payout po: its status, its ledger entry or its audit entry
Releases(po) ==
  \/ payouts[po].status # "released" /\ payouts'[po].status = "released"
  \/ BagCount(ledger', EntriesOf(ledger', "payout_released", "payout_id", po))
       > BagCount(ledger, EntriesOf(ledger, "payout_released", "payout_id", po))
  \/ BagCount(audit', AuditEntries(audit', "payout_release", po))
       > BagCount(audit, AuditEntries(audit, "payout_release", po))

\* release_payout is refused with a validation error wherever it is not allowed
ReleaseRefused ==
  \A po \in DOMAIN payouts :
    (payouts[po].booking_id # NONE /\ ~ReleaseAllowed(po))
      => IsValidationError(release_payout_result(po))

\* C7 (payout release guard): a payout with a linked booking is released only
\* from eligible and only while the booking is not cancelled, its
\* payment_status is exactly paid and its status is completed or checked_in;
\* otherwise release_payout fails with a validation error, and no step changes
\* the payout to released or adds its ledger or audit entry.
C7_PayoutReleaseGuard ==
  [][/\ ReleaseRefused
     /\ ReleaseRefused'
     /\ \A po \in DOMAIN payouts :
          (payouts[po].booking_id # NONE /\ Releases(po)) => ReleaseAllowed(po)]_vars

\* A payout has been released, with its ledger entry, for a paid booking; a
\* further release is refused.
C7_Released ==
  \E po \in DOMAIN payouts :
    /\ payouts[po].status = "released"
    /\ bookings[payouts[po].booking_id].payment_status = "paid"
    /\ EntriesOf(ledger, "payout_released", "payout_id", po) # {}
    /\ IsValidationError(release_payout_result(po))

\* C8 (refund cap): for every payment the amounts of the refunds referencing
\* it sum to at most payment.amount, and a refund request above what is left
\* of the payment (refund_payment, admin create_refund) is rejected.
C8_RefundCap ==
  \A p \in DOMAIN payments :
    LET left == payments[p].amount - SumSeq(refunds, RefundsOfPayment(p))
        b == payments[p].booking_id
    IN /\ left >= 0
       /\ \A a \in (RefundAmounts \cup AdminRefundAmounts) \ {NONE}, rs \in Reasons :
            a > left =>
              /\ refund_payment_result(p, a, rs) # "ok"
              /\ CompletedPayments(b) = {p} => create_refund_result(b, a, rs) # "ok"

\* The refunds of a payment add up to more than the payment.
C8_OverRefunded ==
  \E p \in DOMAIN payments :
    SumSeq(refunds, RefundsOfPayment(p)) > payments[p].amount

\* C9: no payout is released while its booking is cancelled or the booking's
\* payment_status is refunded.
C9_NoReleasedPayoutOfRefundedBooking ==
  \A po \in DOMAIN payouts :
    (payouts[po].status = "released" /\ payouts[po].booking_id # NONE) =>
      /\ bookings[payouts[po].booking_id].status # "cancelled"
      /\ bookings[payouts[po].booking_id].payment_status # "refunded"

\* A released payout whose booking was refunded in full by the admin endpoint.
C9_ReleasedAndRefunded ==
  \E po \in DOMAIN payouts :
    /\ payouts[po].status = "released"
    /\ bookings[payouts[po].booking_id].payment_status = "refunded"
    /\ \E rf \in DOMAIN refunds : refunds[rf].booking_id = payouts[po].booking_id

\* the ledger entries of a type for a booking
BookingEntries(entry_type, b) ==
  {e \in DOMAIN ledger : e.entry_type = entry_type /\ e.booking_id = b}

\* C10 (ledger-vs-snapshot math): for every booking with a snapshot, the sum
\* of its payment_received entries, and that sum minus the sum of its
\* refund_issued entries, are at most snapshot.guest_total.
C10_LedgerWithinSnapshot ==
  \A sn \in DOMAIN snapshots :
    LET b == snapshots[sn].booking_id
        received == SumBag(ledger, BookingEntries("payment_received", b))
        refunded == SumBag(ledger, BookingEntries("refund_issued", b))
    IN /\ received <= snapshots[sn].guest_total
       /\ received - refunded <= snapshots[sn].guest_total

\* A completed booking for which two payments were marked paid.
C10_PaidTwice ==
  \E sn \in DOMAIN snapshots :
    /\ Cardinality(BookingEntries("payment_received", snapshots[sn].booking_id)) = 2
    /\ SumBag(ledger, BookingEntries("payment_received", snapshots[sn].booking_id))
         > snapshots[sn].guest_total

\* ------------------------------------------------------------ properties: C11..C20

\* the refunds of payment p written by refund_payment (it alone records a
\* refund_issued ledger entry for the refund)
RefundPaymentRefunds(p) ==
  {rf \in RefundsOfPayment(p) : EntriesOf(ledger, "refund_issued", "refund_id", rf) # {}}

\* amounts of a further partial refund request
FurtherRefundAmounts == {30, 60}

\* C11 (multiple partial refunds): after refund_payment has refunded part of a
\* payment, a further refund_payment on the same payment with a different
\* amount that still fits in the payment is accepted.
C11_FurtherPartialRefundAccepted ==
  \A p \in DOMAIN payments :
    \A rf \in RefundPaymentRefunds(p), amt \in FurtherRefundAmounts, rs \in Reasons :
      (/\ refunds[rf].amount < payments[p].amount
       /\ amt # refunds[rf].amount
       /\ SumSeq(refunds, RefundsOfPayment(p)) + amt <= payments[p].amount)
      => refund_payment_result(p, amt, rs) = "ok"

\* A payment refunded in part by refund_payment has status refunded, and the
\* further partial refund is refused by the payment transition check.
C11_PartialRefundBlocksNext ==
  \E p \in DOMAIN payments :
    /\ RefundPaymentRefunds(p) # {}
    /\ SumSeq(refunds, RefundsOfPayment(p)) = 40
    /\ payments[p].amount = 100
    /\ payments[p].status = "refunded"
    /\ refund_payment_result(p, 30, "requested") = "InvalidTransition"

\* C12: every Refund row references a payment whose status is completed (the
\* health check for refunds against non-completed payments finds nothing).
C12_RefundsOnCompletedPayments ==
  \A rf \in DOMAIN refunds : payments[refunds[rf].payment_id].status = "completed"

\* A refund written by refund_payment, whose payment the same handler has
\* moved to refunded.
C12_RefundOfRefundedPayment ==
  \E p \in DOMAIN payments :
    /\ RefundPaymentRefunds(p) # {}
    /\ payments[p].status = "refunded"

\* C13 (no overlapping stays): with requests served one at a time, no two
\* non-cancelled bookings of a listing have overlapping stays
\* [check_in, check_out).
C13_NoOverlappingStays ==
  \A a, b \in DOMAIN bookings :
    (/\ a # b
     /\ bookings[a].listing_id = bookings[b].listing_id
     /\ bookings[a].status # "cancelled"
     /\ bookings[b].status # "cancelled")
    => ~StaysOverlap(bookings[a], bookings[b])

\* A booking extended over nights that a later booking of the listing has
\* taken as well: its check_out moved, its calendar block did not.
C13_ExtendedIntoOtherStay ==
  \E a, b \in DOMAIN bookings, x \in DOMAIN extensions :
    /\ a # b
    /\ extensions[x].booking_id = a
    /\ extensions[x].status = "approved"
    /\ bookings[a].check_out = extensions[x].new_check_out
    /\ bookings[a].listing_id = bookings[b].listing_id
    /\ bookings[a].status # "cancelled" /\ bookings[b].status # "cancelled"
    /\ StaysOverlap(bookings[a], bookings[b])

\* C14 (safe retry after a pre-commit failure): when a financial command has
\* failed before its transaction committed, the database and the idempotency
\* store are as they were before the command, and sending the command again
\* has the outcome the failed attempt would have had (it is accepted if that
\* attempt was).
C14_SafeRetryAfterFailure ==
  \A i \in DOMAIN calls :
    calls[i].pc = "failed" =>
      /\ Written = calls[i].before
      /\ idem = calls[i].keys
      /\ command_result(calls[i].cmd) = calls[i].result

\* A command that was accepted, failed before its commit and was rolled back,
\* and is refused as a duplicate when sent again.
C14_RetryRefusedAsDuplicate ==
  \E i \in DOMAIN calls :
    /\ calls[i].pc = "failed"
    /\ calls[i].result = "ok"
    /\ Written = calls[i].before
    /\ command_result(calls[i].cmd) = "IdempotencyError"

\* the executions of a command sent twice at once have all been answered
BothAnswered ==
  calls # << >> /\ \A i \in DOMAIN calls : calls[i].pc = "done"

\* the ledger entries and the audited transitions the raced command has left
RaceLedgerEntries ==
  IF calls[1].op = "mark_payment_paid"
  THEN BagCount(ledger, EntriesOf(ledger, "payment_received", "payment_id", calls[1].id))
  ELSE BagCount(ledger, EntriesOf(ledger, "payout_released", "payout_id", calls[1].id))

RaceTransitions ==
  IF calls[1].op = "mark_payment_paid"
  THEN BagCount(audit, AuditEntries(audit, "payment_mark_paid", calls[1].id))
  ELSE BagCount(audit, AuditEntries(audit, "payout_release", calls[1].id))

\* C15 (concurrent retries): two overlapping executions of mark_payment_paid
\* for one payment, or of release_payout for one payout, however their steps
\* interleave, leave exactly one accepted execution, one state transition and
\* one ledger entry of that type for the entity.
C15_ConcurrentRetriesOnce ==
  (BothAnswered /\ calls[1].valid) =>
    /\ Cardinality({i \in DOMAIN calls : calls[i].result = "ok"}) = 1
    /\ RaceLedgerEntries = 1
    /\ RaceTransitions = 1

\* Both executions were accepted and each wrote its ledger entry.
C15_BothExecuted ==
  /\ BothAnswered
  /\ \A i \in DOMAIN calls : calls[i].result = "ok"
  /\ RaceLedgerEntries = 2
  /\ RaceTransitions = 2

\* the calendar block of booking b is in the calendar
HasBlock(b) ==
  CalendarBlock(bookings[b].listing_id, bookings[b].check_in, bookings[b].check_out)
    \in DOMAIN blocks

\* C16 (state races are serialized per entity): when cancel_booking and
\* check_in_booking of one booking run at once, at most one is accepted, and
\* no booking is left checked in with its cancellation recorded and its
\* calendar block removed.
C16_ConflictingTransitionsSerialized ==
  /\ BothAnswered =>
       Cardinality({i \in DOMAIN calls : calls[i].result = "ok"}) <= 1
  /\ \A b \in DOMAIN bookings :
       bookings[b].status = "checked_in" =>
         bookings[b].cancelled_by = "none" /\ HasBlock(b)

\* Both requests were accepted: the booking is checked in, carries the
\* cancellation and has lost its calendar block.
C16_CheckedInAndCancelled ==
  /\ BothAnswered
  /\ \A i \in DOMAIN calls : calls[i].result = "ok"
  /\ \E b \in DOMAIN bookings :
       /\ bookings[b].status = "checked_in"
       /\ bookings[b].cancelled_by # "none"
       /\ ~HasBlock(b)

\* C17 (dispute transitions are never skipped or repeated): every step that
\* writes a dispute row either leaves its status alone or makes a transition
\* of the dispute table, and a step that records a resolution (an audit row
\* of the admin endpoint or a dispute_resolved ledger entry) starts from
\* opened or under_review.
C17_DisputeTransitionsInTable ==
  [][\A d \in DOMAIN disputes :
       /\ disputes'[d].status # disputes[d].status =>
            assert_dispute_transition(disputes[d].status, disputes'[d].status)
       /\ (/\ disputes'[d].status = "resolved"
           /\ \/ audit' # audit
              \/ EntriesOf(ledger', "dispute_resolved", "dispute_id", d)
                   # EntriesOf(ledger, "dispute_resolved", "dispute_id", d))
            => disputes[d].status \in {"opened", "under_review"}]_vars

\* A dispute whose resolution was reversed (the ledger holds its
\* dispute_reversed entry) is resolved again by the admin endpoint.
C17_ReversedThenResolved ==
  \E d \in DOMAIN disputes :
    /\ disputes[d].status = "resolved"
    /\ EntriesOf(ledger, "dispute_reversed", "dispute_id", d) # {}
    /\ \E e \in DOMAIN audit : e.action = "resolve_dispute" /\ e.resource_id = d

\* C18 (a payment is immutable once completed, except for the transition to
\* refunded): no request and no gateway event moves a completed payment to a
\* status other than refunded, and a failed or refunded payment keeps its
\* status for ever.
C18_CompletedPaymentImmutable ==
  [][\A p \in DOMAIN payments :
       /\ payments[p].status = "completed" =>
            payments'[p].status \in {"completed", "refunded"}
       /\ payments[p].status \in {"failed", "refunded"} =>
            payments'[p].status = payments[p].status]_vars

\* A payment the gateway knows is completed, a second one is refunded, and
\* mark_payment_paid and both gateway events find nothing they may change
\* on the completed one.
C18_CompletedPaymentRefusesCommands ==
  \E p \in DOMAIN payments, q \in DOMAIN payments :
    /\ payments[p].status = "completed"
    /\ payments[p].gateway_transaction_id \in IntentIds
    /\ payments[q].status \in {"refunded", "failed"}
    /\ mark_payment_paid_result(p) \in {"IdempotencyError", "InvalidTransition"}
    /\ stripe_payment_succeeded_result(payments[p].gateway_transaction_id) = "ignored"
    /\ stripe_payment_failed_result(payments[p].gateway_transaction_id) = "ignored"

\* C19 (append-only ledger and snapshot): every step keeps each settlement
\* ledger entry and each booking financial snapshot written before it, with
\* the same field values; a step may only add rows.
C19_LedgerAndSnapshotAppendOnly ==
  [][/\ ledger \sqsubseteq ledger'
     /\ Len(snapshots') >= Len(snapshots)
     /\ \A i \in DOMAIN snapshots : snapshots'[i] = snapshots[i]]_vars

\* A completed booking was extended after its snapshot was taken, its payment
\* refunded, its payout reversed and a dispute resolution reversed: the
\* snapshot still shows the price at completion and the ledger holds the
\* entries of all three.
C19_LayeredOnFrozenSnapshot ==
  \E i \in DOMAIN snapshots :
    /\ bookings[snapshots[i].booking_id].total_price # snapshots[i].guest_total
    /\ EntriesOf(ledger, "refund_issued", "booking_id", snapshots[i].booking_id) # {}
    /\ EntriesOf(ledger, "payout_reversed", "booking_id", snapshots[i].booking_id) # {}
    /\ EntriesOf(ledger, "dispute_resolved", "booking_id", snapshots[i].booking_id) # {}
    /\ EntriesOf(ledger, "dispute_reversed", "booking_id", snapshots[i].booking_id) # {}

\* C20 (the audit trail is append-only): every step keeps each audit_logs
\* row written before it; no request handler and no background task
\* updates or deletes one.
C20_AuditTrailAppendOnly ==
  [][audit \sqsubseteq audit']_vars

\* The ledger holds the entry of a payment marked paid, and the audit row
\* mark_payment_paid wrote with it is gone.
C20_AuditRowsDeleted ==
  \E e \in DOMAIN ledger :
    /\ e.entry_type = "payment_received"
    /\ AuditEntries(audit, "payment_mark_paid", e.payment_id) = {}

\* ====================================================== properties: C21..C30

\* C21 (ledger amounts are positive): every settlement ledger entry has
\* amount > 0, whatever wrote it (payment, refund, payout release, payout
\* reversal, dispute opened, resolved or reversed).
C21_LedgerAmountsPositive ==
  \A e \in DOMAIN ledger : e.amount > 0

\* The ledger holds the dispute_opened entry of a dispute, written with
\* amount 0.
C21_DisputeOpenedWithZero ==
  \E d \in DOMAIN disputes :
    \E e \in EntriesOf(ledger, "dispute_opened", "dispute_id", d) : e.amount = 0

\* the refunds refund_payment wrote for a payment that has a gateway
\* transaction, so that the handler called gateway_service.process_refund
GatewayRefunds ==
  {rf \in DOMAIN refunds :
     /\ payments[refunds[rf].payment_id].gateway_transaction_id # NONE
     /\ AuditEntries(audit, "refund_create", rf) # {}}

C23_BookingMoneyInvariant ==
  \A b \in DOMAIN bookings :
    /\ bookings[b].total_price = bookings[b].subtotal + bookings[b].cleaning_fee
    /\ bookings[b].host_payout_amount =
         bookings[b].total_price - bookings[b].commission_amount
    /\ bookings[b].subtotal >= 0
    /\ bookings[b].cleaning_fee >= 0
    /\ bookings[b].total_price >= 0
    /\ bookings[b].commission_amount >= 0
    /\ bookings[b].host_payout_amount >= 0

\* A marketplace booking with a cleaning fee whose extension the host
\* approved: its check_out and amounts are those after the extension.
C23_ExtendedByApproval ==
  \E x \in DOMAIN extensions :
    LET bk == bookings[extensions[x].booking_id]
    IN /\ extensions[x].status = "approved"
       /\ ~Listings[bk.listing_id].instant_booking
       /\ bk.check_out = extensions[x].new_check_out
       /\ bk.commission_amount > 0
       /\ bk.cleaning_fee > 0
       /\ bk.subtotal = bk.nightly_rate * (bk.check_out - bk.check_in)

\* the finished calls of function op
DoneCalls(op) ==
  {i \in DOMAIN calls : calls[i].op = op /\ calls[i].pc = "done"}

\* C24 (commission rounding is round-half-up): for the marketplace rate 9
\* and every total, calculate_commission(total) = floor((total * 9 + 50) / 100),
\* so an exact commission ending in .5 is rounded up, and the commission and
\* the host payout add up to the total.
C24_CommissionRoundsHalfUp ==
  \A i \in DoneCalls("calculate_commission") :
    calls[i].args[1] = "VOLO_MARKETPLACE" =>
      calls[i].result = (calls[i].args[2] * 9 + 50) \div 100

\* calculate_commission("VOLO_MARKETPLACE", 50), whose exact value is 4.5,
\* has returned 4.
C24_HalfRoundedDown ==
  \E i \in DoneCalls("calculate_commission") :
    /\ calls[i].args = <<"VOLO_MARKETPLACE", 50>>
    /\ calls[i].result = 4

\* C25 (commission correctness): calculate_booking_amounts returns
\* subtotal = nightly_rate * nights and total_price = subtotal + cleaning_fee,
\* a commission that is 9% of the total (to the nearest unit) for the
\* marketplace source and 0 for the direct-link, direct-WhatsApp, Airbnb and
\* Booking.com sources, and host payout = total - commission; marketplace,
\* 10000 a night, 3 nights, cleaning fee 2000 gives 30000 / 32000 / 2880 /
\* 29120, and the same stay by direct link gives commission 0, payout 32000.
C25_CommissionCorrect ==
  \A i \in DoneCalls("calculate_booking_amounts") :
    LET source == calls[i].args[1]
        r == calls[i].result
    IN /\ r.subtotal = calls[i].args[2] * calls[i].args[3]
       /\ r.total_price = r.subtotal + calls[i].args[4]
       /\ r.host_payout_amount = r.total_price - r.commission_amount
       /\ source = "VOLO_MARKETPLACE" =>
            /\ 100 * r.commission_amount - 9 * r.total_price <= 50
            /\ 9 * r.total_price - 100 * r.commission_amount <= 50
       /\ source \in {"DIRECT_LINK", "DIRECT_WHATSAPP", "AIRBNB", "BOOKING_COM"} =>
            r.commission_amount = 0
       /\ calls[i].args = <<"VOLO_MARKETPLACE", 10000, 3, 2000>> =>
            /\ r.subtotal = 30000 /\ r.total_price = 32000
            /\ r.commission_amount = 2880 /\ r.host_payout_amount = 29120
       /\ calls[i].args = <<"DIRECT_LINK", 10000, 3, 2000>> =>
            r.commission_amount = 0 /\ r.host_payout_amount = 32000

\* calculate_booking_amounts has returned for a marketplace stay of 3 nights
\* at 10000 with cleaning fee 2000: commission 2880, host payout 29120.
C25_MarketplaceExample ==
  \E i \in DoneCalls("calculate_booking_amounts") :
    /\ calls[i].args = <<"VOLO_MARKETPLACE", 10000, 3, 2000>>
    /\ calls[i].result.total_price = 32000
    /\ calls[i].result.commission_amount = 2880
    /\ calls[i].result.host_payout_amount = 29120

\* C26 (refund monotonicity): for one policy and check-in date, a later
\* cancellation date never gets a higher refund percentage than an earlier
\* one, before, on or after check-in, and the percentage is a value of the
\* policy's table or 0.
C26_RefundMonotone ==
  /\ \A i \in DoneCalls("calculate_refund_percentage") :
       LET policy == IF calls[i].args[1] \in DOMAIN POLICY_RULES
                     THEN calls[i].args[1] ELSE "moderate"
       IN calls[i].result \in
            {POLICY_RULES[policy][k][2] : k \in DOMAIN POLICY_RULES[policy]} \cup {0}
  /\ DoneCalls("calculate_refund_percentage") = {1, 2} =>
       (calls[1].args[3] <= calls[2].args[3] => calls[1].result >= calls[2].result)

\* Two cancellations of a moderate-policy booking, the earlier five days
\* before check-in or more and the later after check-in: 100 and 0.
C26_FullThenNothing ==
  /\ DoneCalls("calculate_refund_percentage") = {1, 2}
  /\ calls[1].args[1] = "moderate"
  /\ calls[1].args[3] < calls[2].args[3]
  /\ calls[2].args[3] > calls[2].args[2]
  /\ calls[1].result = 100
  /\ calls[2].result = 0

\* C27 (host cancellations refund 100%): a cancel_booking step made by the
\* booking's host leaves refund_amount = total_price, whatever the policy
\* and whatever refunds came before.
C27_HostCancellationRefundsAll ==
  [][\A b \in DOMAIN bookings :
       (/\ bookings[b].status # "cancelled"
        /\ bookings'[b].status = "cancelled"
        /\ bookings'[b].cancelled_by = "host")
       => bookings'[b].refund_amount = bookings'[b].total_price]_vars

\* A booking its host cancelled after a partial refund: refund_amount is
\* still the sum of the refunds made before, less than the total price.
C27_HostCancelledAfterPartialRefund ==
  \E b \in DOMAIN bookings :
    LET of == {i \in DOMAIN refunds : refunds[i].booking_id = b}
    IN /\ bookings[b].status = "cancelled"
       /\ bookings[b].cancelled_by = "host"
       /\ of # {}
       /\ bookings[b].refund_amount = SumSeq(refunds, of)
       /\ bookings[b].refund_amount < bookings[b].total_price

\* C28 (cancellation frees the calendar): once a booking is cancelled, no
\* calendar block made for it is left on its listing, so the nights of its
\* stay, extension nights included, are available again.  (One booking at a
\* time: every block on the listing was made for it.)
C28_CancellationFreesCalendar ==
  \A b \in DOMAIN bookings :
    bookings[b].status = "cancelled" =>
      /\ \A blk \in DOMAIN blocks : blk.listing_id # bookings[b].listing_id
      /\ check_availability(blocks, bookings[b].listing_id,
                            bookings[b].check_in, bookings[b].check_out) = "yes"

\* A booking cancelled after its stay was extended: the block of its
\* original nights is still on the listing and those nights are refused.
C28_BlockLeftAfterCancel ==
  \E b \in DOMAIN bookings, x \in DOMAIN extensions :
    /\ extensions[x].booking_id = b
    /\ extensions[x].status = "approved"
    /\ bookings[b].status = "cancelled"
    /\ bookings[b].check_out = extensions[x].new_check_out
    /\ CalendarBlock(bookings[b].listing_id, bookings[b].check_in,
                     extensions[x].original_check_out) \in DOMAIN blocks
    /\ check_availability(blocks, bookings[b].listing_id, bookings[b].check_in,
                          extensions[x].original_check_out) = "no"

\* C29 (extension re-checks availability): whenever a booking's check_out is
\* moved, by an instant-approved request_extension or by approve_extension,
\* no calendar block of the listing overlaps the added nights
\* [old check_out, new check_out) at the moment of the update.
C29_ExtensionChecksAvailability ==
  [][\A b \in DOMAIN bookings :
       bookings'[b].check_out # bookings[b].check_out
       => check_availability(blocks, bookings[b].listing_id,
                             bookings[b].check_out, bookings'[b].check_out) = "yes"]_vars

\* An approved extension whose added nights are the stay of another live
\* booking of the same listing, which holds a calendar block on them.
C29_ExtendedOntoAnotherStay ==
  \E a \in DOMAIN bookings, b \in DOMAIN bookings, x \in DOMAIN extensions :
    /\ a # b
    /\ extensions[x].booking_id = a
    /\ extensions[x].status = "approved"
    /\ ~Listings[bookings[a].listing_id].instant_booking
    /\ bookings[a].check_out = extensions[x].new_check_out
    /\ bookings[b].listing_id = bookings[a].listing_id
    /\ bookings[b].status \in {"pending", "confirmed"}
    /\ bookings[b].check_in = extensions[x].original_check_out
    /\ bookings[b].check_out = extensions[x].new_check_out
    /\ CalendarBlock(bookings[b].listing_id, bookings[b].check_in,
                     bookings[b].check_out) \in DOMAIN blocks

\* C30 (payout transitions are never skipped): every change of a payout's
\* status, whichever handler makes it, is one of pending -> eligible,
\* pending -> reversed, eligible -> released, eligible -> reversed,
\* released -> reversed; so released is entered from eligible only and a
\* reversed payout keeps its status.
C30_PayoutTransitionsInTable ==
  [][\A po \in DOMAIN payouts :
       payouts'[po].status # payouts[po].status
       => /\ <<payouts[po].status, payouts'[po].status>> \in
               {<<"pending", "eligible">>, <<"pending", "reversed">>,
                <<"eligible", "released">>, <<"eligible", "reversed">>,
                <<"released", "reversed">>}
          /\ payouts'[po].status = "released" => payouts[po].status = "eligible"
          /\ payouts[po].status # "reversed"]_vars

\* A payout that was released and then reversed by the payout step of a full
\* refund_payment: it has its payout_released ledger entry, no payout_reversed
\* entry (reverse_payout did not run), and the booking is fully refunded.
C30_ReleasedThenReversedByRefund ==
  \E po \in DOMAIN payouts :
    /\ payouts[po].status = "reversed"
    /\ EntriesOf(ledger, "payout_released", "payout_id", po) # {}
    /\ EntriesOf(ledger, "payout_reversed", "payout_id", po) = {}
    /\ bookings[payouts[po].booking_id].payment_status = "refunded"
    /\ \E i \in DOMAIN refunds : refunds[i].booking_id = payouts[po].booking_id

\* ====================================================== properties: C31..C40

C32_PayoutStatusMatchesLedger ==
  \A po \in DOMAIN payouts :
    LET rel == EntriesOf(ledger, "payout_released", "payout_id", po)
        rev == EntriesOf(ledger, "payout_reversed", "payout_id", po)
    IN /\ payouts[po].status = "released" => BagCount(ledger, rel) = 1
       /\ rel # {} => payouts[po].status \in {"released", "reversed"}
       /\ (payouts[po].status = "reversed" /\ rel # {}) =>
            /\ BagCount(ledger, rev) = 1
            /\ \A e \in rel, f \in rev : e.amount = f.amount

\* A released payout reversed by a full refund: the ledger holds the debit of
\* the release and the debit of the refund, and no payout_reversed credit.
C32_ReversedWithoutLedgerEntry ==
  \E po \in DOMAIN payouts :
    LET b == payouts[po].booking_id
    IN /\ payouts[po].status = "reversed"
       /\ BagCount(ledger, EntriesOf(ledger, "payout_released", "payout_id", po)) = 1
       /\ BagCount(ledger, EntriesOf(ledger, "refund_issued", "booking_id", b)) >= 1
       /\ EntriesOf(ledger, "payout_reversed", "payout_id", po) = {}
       /\ bookings[b].refund_amount >= bookings[b].total_price

\* the payouts, not reversed, that include booking b: its own payout or an
\* aggregated payout listing it
PayoutsCovering(b) ==
  {po \in DOMAIN payouts :
     /\ payouts[po].status # "reversed"
     /\ (payouts[po].booking_id = b \/ b \in payouts[po].booking_ids)}

\* C33 (a booking is paid out at most once): every booking is included in at
\* most one payout, counting the payout made by complete_booking and the
\* payouts made by the daily task over any number of runs.
C33_BookingPaidOutOnce ==
  \A b \in DOMAIN bookings : Cardinality(PayoutsCovering(b)) <= 1

\* A completed, paid booking with two released payouts: the one from
\* complete_booking and one from the daily task that lists the booking.
C33_ReleasedTwice ==
  \E b \in DOMAIN bookings, p1 \in DOMAIN payouts, p2 \in DOMAIN payouts :
    /\ bookings[b].status = "completed"
    /\ bookings[b].payment_status = "paid"
    /\ payouts[p1].booking_id = b
    /\ b \in payouts[p2].booking_ids
    /\ payouts[p1].status = "released"
    /\ payouts[p2].status = "released"
    /\ payouts[p1].amount + payouts[p2].amount > bookings[b].host_payout_amount

AuditedInStep(resource_type, resource_id) ==
  \E e \in DOMAIN audit' :
    /\ e.resource_type = resource_type
    /\ resource_type = "refund" \/ e.resource_id = resource_id
    /\ IF e \in DOMAIN audit THEN audit'[e] > audit[e] ELSE TRUE

\* C35 (every financial mutation is audited): a step that completes, fails or
\* refunds a payment, adds a refund, changes a payout's status or amount, or
\* opens a dispute or changes its status appends an audit row for that entity
\* in the same step.
C35_FinancialMutationsAudited ==
  [][/\ \A p \in DOMAIN payments :
          (/\ payments'[p].status # payments[p].status
           /\ payments'[p].status \in {"completed", "failed", "refunded"})
          => AuditedInStep("payment", p) \/ AuditedInStep("refund", p)
     /\ Len(refunds') > Len(refunds) => AuditedInStep("refund", Len(refunds'))
     /\ \A po \in DOMAIN payouts :
          (\/ payouts'[po].status # payouts[po].status
           \/ payouts'[po].amount # payouts[po].amount)
          => AuditedInStep("payout", po)
     /\ Len(disputes') > Len(disputes) => AuditedInStep("dispute", Len(disputes'))
     /\ \A d \in DOMAIN disputes :
          disputes'[d].status # disputes[d].status => AuditedInStep("dispute", d)]_vars

\* A payout made eligible, and a dispute opened, with no audit row for either.
C35_EligibleAndDisputedUnaudited ==
  \E po \in DOMAIN payouts, d \in DOMAIN disputes :
    /\ payouts[po].status = "eligible"
    /\ disputes[d].status = "opened"
    /\ \A e \in DOMAIN audit :
         /\ ~(e.resource_type = "payout" /\ e.resource_id = po)
         /\ e.resource_type # "dispute"

\* the blocks of the listing that overlap the stay, half-open
OverlappingBlocks(l, check_in, check_out) ==
  {blk \in DOMAIN blocks :
     /\ blk.listing_id = l
     /\ blk.start_date < check_out
     /\ blk.end_date > check_in}

\* C36 (half-open overlap check): check_availability answers not available
\* iff some block of the listing has start < check_out and end > check_in,
\* and available otherwise, however many blocks overlap the stay.
C36_HalfOpenOverlap ==
  \A i \in DoneCalls("check_availability") :
    LET a == calls[i].args
    IN calls[i].result = IF OverlappingBlocks(a[1], a[2], a[3]) # {} THEN "no" ELSE "yes"

\* A stay over the nights of two adjacent blocks of the listing: the query
\* finds two rows and scalar_one_or_none raises.
C36_TwoBlocksOverlapStay ==
  \E i \in DoneCalls("check_availability") :
    LET a == calls[i].args
    IN /\ Cardinality(OverlappingBlocks(a[1], a[2], a[3])) = 2
       /\ \E r \in DOMAIN blocks, q \in DOMAIN blocks :
            r.listing_id = a[1] /\ q.listing_id = a[1] /\ r.end_date = q.start_date
       /\ calls[i].result = "MultipleResultsFound"

\* the dispute table of the specification, as pairs (current, target)
C37_SpecTable ==
  {<<"opened", "under_review">>, <<"opened", "resolved">>,
   <<"under_review", "resolved">>, <<"under_review", "opened">>,
   <<"resolved", "reversed">>}

\* C37 (dispute table and predicates agree): for each of the four dispute
\* statuses s, assert_dispute_transition(s, t) returns without error iff the
\* table has s -> t, can_resolve_dispute(s) is true iff the table has
\* s -> resolved, and can_reverse_dispute(s) is true iff it has s -> reversed.
C37_DisputePredicatesAgree ==
  \A i \in DOMAIN calls :
    (calls[i].pc = "done" /\ calls[i].args[1] \in {"opened", "under_review", "resolved", "reversed"}) =>
      LET s == calls[i].args[1]
      IN CASE calls[i].op = "assert_dispute_transition" ->
                calls[i].result = (<<s, calls[i].args[2]>> \in C37_SpecTable)
           [] calls[i].op = "can_resolve_dispute" ->
                calls[i].result = (<<s, "resolved">> \in C37_SpecTable)
           [] calls[i].op = "can_reverse_dispute" ->
                calls[i].result = (<<s, "reversed">> \in C37_SpecTable)
           [] OTHER -> TRUE

\* For a resolved dispute all three functions have answered: resolving again
\* is refused by the table and by can_resolve_dispute, reversing is allowed.
C37_ResolvedAnswers ==
  /\ Len(calls) = 3
  /\ \A i \in DOMAIN calls : calls[i].pc = "done" /\ calls[i].args[1] = "resolved"
  /\ calls[1].op = "assert_dispute_transition"
  /\ calls[1].args[2] = "resolved"
  /\ calls[1].result = FALSE
  /\ calls[2].op = "can_resolve_dispute" /\ calls[2].result = FALSE
  /\ calls[3].op = "can_reverse_dispute" /\ calls[3].result = TRUE

\* C38 (a completed booking's terms are frozen): a completed booking's
\* total_price, subtotal, commission_amount, host_payout_amount and check_out
\* equal the values in its financial snapshot.
C38_CompletedTermsFrozen ==
  \A b \in DOMAIN bookings :
    bookings[b].status = "completed" =>
      \A i \in SnapshotsOfBooking(snapshots, b) :
        /\ snapshots[i].guest_total = bookings[b].total_price
        /\ snapshots[i].guest_subtotal = bookings[b].subtotal
        /\ snapshots[i].commission_amount = bookings[b].commission_amount
        /\ snapshots[i].host_payout_amount = bookings[b].host_payout_amount
        /\ snapshots[i].check_out = bookings[b].check_out

\* A completed booking extended after its snapshot was taken: the extension
\* starts at the snapshot's check_out and the booking's total is the
\* snapshot's total plus the extension's amount.
C38_ExtendedAfterCompletion ==
  \E b \in DOMAIN bookings, x \in DOMAIN extensions :
    \E i \in SnapshotsOfBooking(snapshots, b) :
      /\ bookings[b].status = "completed"
      /\ extensions[x].booking_id = b
      /\ extensions[x].status = "approved"
      /\ extensions[x].original_check_out = snapshots[i].check_out
      /\ bookings[b].check_out = extensions[x].new_check_out
      /\ bookings[b].total_price = snapshots[i].guest_total + extensions[x].additional_amount
      /\ bookings[b].host_payout_amount > snapshots[i].host_payout_amount

\* C39 (reconciliation totals match reporting): for one ledger and one date,
\* the net_position update_period_totals writes on the daily period equals
\* the net_position get_daily_settlement_summary reports for that date.
C39_ReconciliationMatchesReport ==
  (Len(calls) = 2 /\ \A i \in DOMAIN calls : calls[i].pc = "done") =>
    calls[1].result.net_position = calls[2].result.net_position

\* A day with a payout_reversed entry: the report counts the reversal, the
\* period total leaves it out, and the two net positions differ by it.
C39_ReversalLeftOut ==
  /\ Len(calls) = 2
  /\ \A i \in DOMAIN calls : calls[i].pc = "done"
  /\ calls[1].op = "update_period_totals"
  /\ calls[2].op = "get_daily_settlement_summary"
  /\ calls[2].result.total_payouts_reversed > 0
  /\ calls[2].result.net_position
       = calls[1].result.net_position + calls[2].result.total_payouts_reversed

\* C40 (resolve-then-reverse is neutral): once a resolution has been made
\* and reversed, the ledger's net position and every payout's status and
\* amount are what they were just before the resolution.
C40_ResolveReverseNeutral ==
  (calls # << >> /\ disputes[calls[1].dispute_id].status = "reversed") =>
    /\ check_ledger_balance(ledger) = calls[1].net_position
    /\ payouts = calls[1].payouts

\* A payout_reversal resolution made and reversed: the ledger is back at its
\* net position and holds both dispute entries, the payout that was pending
\* or eligible before is still reversed.
C40_PayoutStaysReversed ==
  /\ calls # << >>
  /\ disputes[calls[1].dispute_id].status = "reversed"
  /\ disputes[calls[1].dispute_id].resolution_type = "payout_reversal"
  /\ EntriesOf(ledger, "dispute_resolved", "dispute_id", calls[1].dispute_id) # {}
  /\ EntriesOf(ledger, "dispute_reversed", "dispute_id", calls[1].dispute_id) # {}
  /\ check_ledger_balance(ledger) = calls[1].net_position
  /\ \E po \in DOMAIN payouts :
       /\ calls[1].payouts[po].status \in {"pending", "eligible"}
       /\ payouts[po].status = "reversed"
====
